---- MODULE Spec2Model ----
(***************************************************************************)
(* Model of the riscv-qcu core: the lock-free single-producer /            *)
(* multi-consumer StaticQueue (qcu_core/src/spmc.rs) and the Union-Find    *)
(* decoder (qcu_core/src/decoder.rs, dsu.rs, graph.rs, bit_utils.rs,       *)
(* static_vec.rs).                                                         *)
(*                                                                         *)
(* SpecQueue   : one producer and NumConsumers consumers; every atomic     *)
(*               load, slot write/read, store and compare-exchange of      *)
(*               push and pop is one step.                                 *)
(* SpecDecoder : a graph is built by add_edge calls, then one decoder      *)
(*               instance runs solve_into calls on it, one edge of the     *)
(*               sweep per step.                                           *)
(* SpecChain   : the same decoder on the chain graph (0,1),(1,2),(2,3).    *)
(* SpecScenario: the same decoder on the chain graph, on two disjoint      *)
(*               edges and on a single edge.                               *)
(* SpecDsu     : a UnionFind driven by find, union, toggle_parity and      *)
(*               set_parity calls; SpecDeep the same on more nodes, by     *)
(*               find and union only.                                      *)
(* SpecSystem  : the firmware's primary loop (qcu_firmware/src/main.rs)    *)
(*               pushing shots into the queue and the workers popping.     *)
(* SpecFirmware: the firmware from boot on: graph publication, the ready   *)
(*               flag, the primary loop with its telemetry branch and the  *)
(*               workers decoding and updating the latency counters.       *)
(* SpecAlloc   : threads calling BumpAllocator::allocate and deallocate    *)
(*               (qcu_core/src/allocator.rs), one atomic operation a step. *)
(* SpecStaticVec, SpecBitPack, SpecAdjacency: StaticVec, BitPack on        *)
(*               integer words and DecodingGraph::build_adjacency, each    *)
(*               driven by every sequence of its calls.                    *)
(* SpecExpand  : worker_main's expansion of a packet's syndrome words      *)
(*               into detector indices, one loop step at a time.           *)
(* SpecRing    : RingBuffer (qcu_core/src/ring_buffer.rs) with one         *)
(*               producer and one consumer, one memory access a step.      *)
(* SpecQueueFair: SpecQueue with workers that keep running.                *)
(***************************************************************************)
EXTENDS Integers, Sequences, FiniteSets, TLC

(***************************************************************************)
(* Bounds                                                                  *)
(***************************************************************************)
\* log2 of the queue capacity N (N must be a power of two)
LogQN == 1
\* number of consumer threads
NumConsumers == 2
\* number of push calls the producer makes
MaxPush == 3

\* capacity N of UnionFindDecoder<N> in SpecDecoder
DN == 3
\* largest node index passed to add_edge
MaxNodeId == 3
\* number of add_edge calls
MaxEdges == 2
\* length of the syndrome list passed to solve_into in SpecDecoder
MaxSyn == 2

\* number of nodes of the UnionFind in SpecDsu
DsuN == 4
\* number of nodes of the UnionFind in SpecDeep
DeepN == 8
\* number of toggle_parity calls in SpecDsu
MaxToggles == 3

\* bench_data::TOTAL_SHOTS, the number S of shots of the bench data table
TOTAL_SHOTS == 2

\* largest value the monotonic clock reaches in SpecFirmware
MaxNow == 1
\* telemetry period in clock ticks (10_000_000 in primary_main)
TelemetryPeriod == 1
\* width in bits of the model's u64 (64 in the code)
ClockBits == 4
\* capacity of a worker's corrections sink (1024 in worker_main)
FwCorrCap == 1

\* width in bits of the model's usize in SpecAlloc (64 on the target)
AllocBits == 4
\* number of threads that share the BumpAllocator
AllocThreads == 2
\* number of allocate calls made on the BumpAllocator
MaxAllocCalls == 3
\* largest size of a Layout passed to allocate
MaxAllocSize == 2

\* capacity N of the StaticVec<T, N> exercised on its own
SvN == 3
\* number of distinct items pushed on it
SvItems == 2

\* width in bits of a storage word in SpecBitPack (64 in the code)
PackBits == 3
\* number of words of the storage slice in SpecBitPack
PackWords == 2

\* number of add_edge calls before and between build_adjacency calls
MaxAdjEdges == 3

\* width in bits of a syndrome word in SpecExpand (64 in the code)
ExpBits == 3
\* number of words of a packet's syndromes in SpecExpand (WORDS_PER_SHOT)
ExpWords == 2
\* capacity of the worker's syndrome_indices scratch (1024 in worker_main)
ExpCap == 3

\* width in bits of the model's usize counters in SpecRing
RingBits == 2
\* log2 of the capacity of the RingBuffer
LogRingCap == 1
\* number of push calls on the RingBuffer
MaxRingPush == 5

\* queue capacity N of StaticQueue<T, N>
QN == 2 ^ LogQN

Consumers == 1 .. NumConsumers

\* content of a slot that was never written (MaybeUninit::uninit())
Uninit == 0 - 1

(***************************************************************************)
(* Bit arithmetic                                                          *)
(***************************************************************************)
RECURSIVE BitAnd(_, _)
\* a & b on non-negative integers
BitAnd(a, b) ==
    IF a = 0 \/ b = 0 THEN 0
    ELSE (a % 2) * (b % 2) + 2 * BitAnd(a \div 2, b \div 2)

(***************************************************************************)
(* State of the queue                                                      *)
(***************************************************************************)
VARIABLES
    head,        \* StaticQueue.head (AtomicUsize)
    tail,        \* StaticQueue.tail (AtomicUsize)
    buffer,      \* StaticQueue.buffer : slot index -> item or Uninit
    ppc,         \* producer's position in push
    push_head,   \* push's local `head`
    push_tail,   \* push's local `tail`
    push_item,   \* push's argument `item`
    push_res,    \* result of the last completed push
    push_buf0,   \* buffer as it was when the current push was called
    nextItem,    \* number of push calls made so far (items are 0, 1, ...)
    pushedSeq,   \* items whose push returned Ok, in order (ticket k at k+1)
    cpc,         \* each consumer's position in pop
    pop_tail,    \* pop's local `tail`
    pop_head,    \* pop's local `head`
    pop_res,     \* result of each consumer's last completed pop
    popped,      \* item -> number of pops that returned it
    sawEmpty,    \* consumer -> tail = head held at some instant of its call
    popChanged   \* consumer -> its call has changed head, tail or a slot

qvars == <<head, tail, buffer, ppc, push_head, push_tail, push_item, push_res,
           push_buf0, nextItem, pushedSeq, cpc, pop_tail, pop_head, pop_res,
           popped, sawEmpty, popChanged>>

(***************************************************************************)
(* State of the graph and of one decoder                                   *)
(***************************************************************************)
VARIABLES
    graph,             \* DecodingGraph: fast_edges, max_node_id
    dec_N,             \* the decoder's const N
    decoder,           \* UnionFindDecoder: parent, rank, parity, touched
    out_buffer,        \* the correction sink's contents
    out_cap,           \* the correction sink's capacity
    syndrome_indices,  \* solve_into's argument
    solve              \* solve_into's position, locals and result

dvars == <<graph, dec_N, decoder, out_buffer, out_cap, syndrome_indices, solve>>

(***************************************************************************)
(* State of a UnionFind driven through its own interface                   *)
(***************************************************************************)
VARIABLES
    uf,          \* UnionFind: parent, rank, parity
    uf_toggles,  \* the nodes passed to toggle_parity so far, in call order
    uf_set       \* set_parity has been called

uvars == <<uf, uf_toggles, uf_set>>

(***************************************************************************)
(* State of the firmware's primary and worker loops                        *)
(***************************************************************************)
VARIABLES
    data_idx,     \* primary_main's local data_idx
    QUEUE_DEPTH,  \* static QUEUE_DEPTH (AtomicI64)
    prim_pc,      \* primary_main's position in its loop
    packet,       \* the SyndromePacket built in the current iteration
    prim_last     \* outcome of the push of the previous iteration

pvars == <<data_idx, QUEUE_DEPTH, prim_pc, packet, prim_last>>

(***************************************************************************)
(* State of the firmware beyond the push loop: boot, clock, telemetry,     *)
(* the workers' decode and the latency counters                            *)
(***************************************************************************)
VARIABLES
    now,              \* the monotonic counter at MTIME_ADDR, as last read
    boot_pc,          \* primary_main's position before its loop
    SYSTEM_READY,     \* static SYSTEM_READY (AtomicBool)
    GRAPH_REF,        \* static GRAPH_REF: "None" or "Some"
    stamp,            \* push call number -> timestamp of its packet
    prim_now,         \* primary_main's local now while the telemetry branch needs it
    last_print_time,  \* primary_main's local last_print_time
    tele_pc,          \* primary_main's position in the telemetry branch
    wpc,              \* each worker's position in worker_main
    wlat,             \* each worker's local latency
    TOTAL_PROCESSED,  \* static TOTAL_PROCESSED (AtomicU64)
    LATENCY_SUM,      \* static LATENCY_SUM (AtomicU64)
    LATENCY_MAX,      \* static LATENCY_MAX (AtomicU64)
    LATENCY_MIN,      \* static LATENCY_MIN (AtomicU64)
    lats,             \* latency -> number of decodes that returned Ok with it
    resets            \* a telemetry swap has been made

fvars == <<now, boot_pc, SYSTEM_READY, GRAPH_REF, stamp, prim_now, last_print_time,
           tele_pc, wpc, wlat, TOTAL_PROCESSED, LATENCY_SUM,
           LATENCY_MAX, LATENCY_MIN, lats, resets>>

VARIABLES
    bump_start,       \* BumpAllocator.start
    bump_len,         \* BumpAllocator.len
    bump_offset,      \* BumpAllocator.offset (AtomicUsize)
    apc,              \* each thread's position in allocate
    alocal,           \* each thread's layout, current_offset, aligned_ptr and new_offset
    regions,          \* the <<pointer, size>> pairs that allocate returned, in order
    failed,           \* the <<current_offset, size, align>> of calls that returned Err
    freed             \* indices of regions that were passed to deallocate

avars == <<bump_start, bump_len, bump_offset, apc, alocal, regions, failed, freed>>

VARIABLES
    sv_data,          \* StaticVec.data: slot -> item or Uninit
    sv_len,           \* StaticVec.len
    sv_ret,           \* what the last call on the StaticVec returned
    sv_prev           \* the elements the StaticVec held before that call

svars == <<sv_data, sv_len, sv_ret, sv_prev>>

VARIABLES
    bp_storage,       \* the storage slice: a sequence of words
    bp_prev,          \* the storage before the last BitPack call
    bp_call,          \* the last BitPack call and its index
    bp_bits           \* index -> the bit (0 or 1) last written there, Uninit before

bvars == <<bp_storage, bp_prev, bp_call, bp_bits>>

VARIABLES
    adj_offsets,      \* DecodingGraph.adj_offsets: index -> offset
    adj_targets       \* DecodingGraph.adj_targets: index -> node

gvars == <<adj_offsets, adj_targets>>

VARIABLES
    exp_syndromes,    \* packet.syndromes of the packet being expanded
    exp_indices,      \* the worker's syndrome_indices
    exp_i,            \* the index i of the enumerate loop
    exp_w,            \* the local w
    exp_bit,          \* the local bit
    exp_pc            \* the worker's position in the expansion

xvars == <<exp_syndromes, exp_indices, exp_i, exp_w, exp_bit, exp_pc>>

VARIABLES
    rb_buffer,        \* RingBuffer.buffer: slot -> item
    rb_head,          \* RingBuffer.head (AtomicUsize)
    rb_tail,          \* RingBuffer.tail (AtomicUsize)
    rb_ppc,           \* the producer's position in push
    rb_push,          \* push's locals head, tail and item
    rb_cpc,           \* the consumer's position in pop
    rb_pop,           \* pop's locals tail, head and item
    rb_pushed,        \* the items whose push returned true, in order
    rb_popped,        \* the items pops returned, in order
    rb_calls          \* the number of push calls made

rvars == <<rb_buffer, rb_head, rb_tail, rb_ppc, rb_push, rb_cpc, rb_pop,
           rb_pushed, rb_popped, rb_calls>>

\* the state of the library types exercised on their own
lvars == <<avars, svars, bvars, gvars, xvars, rvars>>

vars == <<qvars, dvars, uvars, pvars, fvars, lvars>>

\* what a step of the queue, of the decoder, of the UnionFind, of the
\* firmware loops and of each library type leaves alone
queueFrame == <<dvars, uvars, pvars, fvars, lvars>>
decoderFrame == <<qvars, uvars, pvars, fvars, lvars>>
dsuFrame == <<qvars, dvars, pvars, fvars, lvars>>
coreFrame == <<qvars, dvars, uvars, pvars, fvars>>
allocFrame == <<coreFrame, svars, bvars, gvars, xvars, rvars>>
svFrame == <<coreFrame, avars, bvars, gvars, xvars, rvars>>
packFrame == <<coreFrame, avars, svars, gvars, xvars, rvars>>
adjFrame == <<coreFrame, avars, svars, bvars, xvars, rvars>>
expandFrame == <<coreFrame, avars, svars, bvars, gvars, rvars>>
ringFrame == <<coreFrame, avars, svars, bvars, gvars, xvars>>

NoRes == [kind |-> "none", item |-> Uninit, ticket |-> Uninit]

\* StaticQueue::new
QueueInit ==
    /\ head = 0
    /\ tail = 0
    /\ buffer = [s \in 0 .. QN - 1 |-> Uninit]
    /\ ppc = "idle"
    /\ push_head = 0
    /\ push_tail = 0
    /\ push_item = Uninit
    /\ push_res = NoRes
    /\ push_buf0 = [s \in 0 .. QN - 1 |-> Uninit]
    /\ nextItem = 0
    /\ pushedSeq = <<>>
    /\ cpc = [c \in Consumers |-> "idle"]
    /\ pop_tail = [c \in Consumers |-> 0]
    /\ pop_head = [c \in Consumers |-> 0]
    /\ pop_res = [c \in Consumers |-> NoRes]
    /\ popped = [v \in Uninit .. MaxPush - 1 |-> 0]
    /\ sawEmpty = [c \in Consumers |-> FALSE]
    /\ popChanged = [c \in Consumers |-> FALSE]

\* index & (N - 1)
SlotIndex(i) == BitAnd(i, QN - 1)

PushIsFull_Off(h, t) == h - t > QN
\* head.wrapping_sub(tail) >= N
PushIsFull(h, t) == h - t >= QN

consumerVars == <<cpc, pop_tail, pop_head, pop_res, popped>>
producerVars == <<ppc, push_head, push_tail, push_item, push_res, push_buf0,
                  nextItem, pushedSeq>>

(***************************************************************************)
(* push (single producer)                                                  *)
(***************************************************************************)
\* push is called with the next item; let head = self.head.load(Relaxed)
PushLoadHead ==
    /\ ppc = "idle"
    /\ nextItem < MaxPush
    /\ push_item' = nextItem
    /\ nextItem' = nextItem + 1
    /\ push_head' = head
    /\ push_res' = NoRes
    /\ push_buf0' = buffer
    /\ ppc' = "loadTail"
    /\ UNCHANGED <<head, tail, buffer, push_tail, pushedSeq>>
    /\ UNCHANGED <<consumerVars, queueFrame>>

\* let tail = self.tail.load(Acquire)
PushLoadTail ==
    /\ ppc = "loadTail"
    /\ push_tail' = tail
    /\ ppc' = "check"
    /\ UNCHANGED <<head, tail, buffer, push_head, push_item, push_res,
                   push_buf0, nextItem, pushedSeq>>
    /\ UNCHANGED <<consumerVars, queueFrame>>

\* if head.wrapping_sub(tail) >= N { return Err(item); }
PushFull ==
    /\ ppc = "check"
    /\ PushIsFull(push_head, push_tail)
    /\ push_res' = [kind |-> "Err", item |-> push_item, ticket |-> Uninit]
    /\ ppc' = "idle"
    /\ UNCHANGED <<head, tail, buffer, push_head, push_tail, push_item,
                   push_buf0, nextItem, pushedSeq>>
    /\ UNCHANGED <<consumerVars, queueFrame>>

PushWrite_WrongSlot ==
    /\ ppc = "check"
    /\ ~PushIsFull(push_head, push_tail)
    /\ buffer' = [buffer EXCEPT ![SlotIndex(push_head + 1)] = push_item]
    /\ ppc' = "store"
    /\ UNCHANGED <<head, tail, push_head, push_tail, push_item, push_res,
                   push_buf0, nextItem, pushedSeq>>
    /\ UNCHANGED <<consumerVars, queueFrame>>

\* (*self.buffer[head & (N - 1)].get()).write(item)
PushWrite ==
    /\ ppc = "check"
    /\ ~PushIsFull(push_head, push_tail)
    /\ buffer' = [buffer EXCEPT ![SlotIndex(push_head)] = push_item]
    /\ ppc' = "store"
    /\ UNCHANGED <<head, tail, push_head, push_tail, push_item, push_res,
                   push_buf0, nextItem, pushedSeq>>
    /\ UNCHANGED <<consumerVars, queueFrame>>

PushStoreHead_NoAdvance ==
    /\ ppc = "store"
    /\ head' = push_head
    /\ pushedSeq' = Append(pushedSeq, push_item)
    /\ push_res' = [kind |-> "Ok", item |-> Uninit, ticket |-> push_head]
    /\ ppc' = "idle"
    /\ UNCHANGED <<tail, buffer, push_head, push_tail, push_item, push_buf0,
                   nextItem>>
    /\ UNCHANGED <<consumerVars, queueFrame>>

\* self.head.store(head.wrapping_add(1), Release); Ok(())
PushStoreHead ==
    /\ ppc = "store"
    /\ head' = push_head + 1
    /\ pushedSeq' = Append(pushedSeq, push_item)
    /\ push_res' = [kind |-> "Ok", item |-> Uninit, ticket |-> push_head]
    /\ ppc' = "idle"
    /\ UNCHANGED <<tail, buffer, push_head, push_tail, push_item, push_buf0,
                   nextItem>>
    /\ UNCHANGED <<consumerVars, queueFrame>>

(***************************************************************************)
(* pop (any number of consumers)                                           *)
(***************************************************************************)
\* pop is called; let mut tail = self.tail.load(Relaxed)
PopLoadTail(c) ==
    /\ cpc[c] = "idle"
    /\ pop_tail' = [pop_tail EXCEPT ![c] = tail]
    /\ pop_res' = [pop_res EXCEPT ![c] = NoRes]
    /\ cpc' = [cpc EXCEPT ![c] = "loadHead"]
    /\ UNCHANGED <<head, tail, buffer, pop_head, popped>>
    /\ UNCHANGED <<producerVars, queueFrame>>

\* a pop that takes a queue holding one item for empty
PopLoadHead_LeavesOne(c) ==
    /\ cpc[c] = "loadHead"
    /\ pop_head' = [pop_head EXCEPT ![c] = head]
    /\ IF pop_tail[c] = head \/ pop_tail[c] + 1 = head
       THEN /\ pop_res' = [pop_res EXCEPT ![c] =
                             [kind |-> "None", item |-> Uninit, ticket |-> Uninit]]
            /\ cpc' = [cpc EXCEPT ![c] = "idle"]
       ELSE /\ cpc' = [cpc EXCEPT ![c] = "cas"]
            /\ UNCHANGED pop_res
    /\ UNCHANGED <<head, tail, buffer, pop_tail, popped>>
    /\ UNCHANGED <<producerVars, queueFrame>>

\* let head = self.head.load(Acquire); if tail == head { return None; }
PopLoadHead(c) ==
    /\ cpc[c] = "loadHead"
    /\ pop_head' = [pop_head EXCEPT ![c] = head]
    /\ IF pop_tail[c] = head
       THEN /\ pop_res' = [pop_res EXCEPT ![c] =
                             [kind |-> "None", item |-> Uninit, ticket |-> Uninit]]
            /\ cpc' = [cpc EXCEPT ![c] = "idle"]
       ELSE /\ cpc' = [cpc EXCEPT ![c] = "cas"]
            /\ UNCHANGED pop_res
    /\ UNCHANGED <<head, tail, buffer, pop_tail, popped>>
    /\ UNCHANGED <<producerVars, queueFrame>>

\* self.tail.compare_exchange_weak(tail, tail + 1, ..) => Ok(_)
PopCasOk(c) ==
    /\ cpc[c] = "cas"
    /\ tail = pop_tail[c]
    /\ tail' = pop_tail[c] + 1
    /\ cpc' = [cpc EXCEPT ![c] = "read"]
    /\ UNCHANGED <<head, buffer, pop_tail, pop_head, pop_res, popped>>
    /\ UNCHANGED <<producerVars, queueFrame>>

PopCasFail_StaleHead(c) ==
    /\ cpc[c] = "cas"
    /\ pop_tail' = [pop_tail EXCEPT ![c] = tail]
    /\ IF tail = pop_head[c]
       THEN /\ pop_res' = [pop_res EXCEPT ![c] =
                             [kind |-> "None", item |-> Uninit, ticket |-> Uninit]]
            /\ cpc' = [cpc EXCEPT ![c] = "idle"]
       ELSE /\ cpc' = [cpc EXCEPT ![c] = "cas"]
            /\ UNCHANGED pop_res
    /\ UNCHANGED <<head, tail, buffer, pop_head, popped>>
    /\ UNCHANGED <<producerVars, queueFrame>>

\* compare_exchange_weak => Err(actual_tail): tail = actual_tail, loop again.
\* The weak compare-exchange may also fail although tail still has the
\* expected value.
PopCasFail(c) ==
    /\ cpc[c] = "cas"
    /\ pop_tail' = [pop_tail EXCEPT ![c] = tail]
    /\ cpc' = [cpc EXCEPT ![c] = "loadHead"]
    /\ UNCHANGED <<head, tail, buffer, pop_head, pop_res, popped>>
    /\ UNCHANGED <<producerVars, queueFrame>>

\* let item = (*self.buffer[tail & (N - 1)].get()).assume_init(); Some(item)
PopRead(c) ==
    /\ cpc[c] = "read"
    /\ LET item == buffer[SlotIndex(pop_tail[c])]
       IN  /\ pop_res' = [pop_res EXCEPT ![c] =
                            [kind |-> "Some", item |-> item, ticket |-> pop_tail[c]]]
           /\ popped' = [popped EXCEPT ![item] = @ + 1]
    /\ cpc' = [cpc EXCEPT ![c] = "idle"]
    /\ UNCHANGED <<head, tail, buffer, pop_tail, pop_head>>
    /\ UNCHANGED <<producerVars, queueFrame>>

\* bookkeeping per pop call: whether tail = head held at some instant of the
\* call, and whether a step of the call changed head, tail or a slot
ObserveCalls ==
    /\ sawEmpty' = [c \in Consumers |->
          IF cpc[c] = "idle" /\ cpc'[c] # "idle"
          THEN (head = tail) \/ (head' = tail')
          ELSE IF cpc[c] # "idle"
               THEN sawEmpty[c] \/ (head' = tail')
               ELSE sawEmpty[c]]
    /\ popChanged' = [c \in Consumers |->
          IF cpc[c] = "idle" /\ cpc'[c] # "idle"
          THEN <<head, tail, buffer>>' # <<head, tail, buffer>>
          ELSE IF cpc'[c] # cpc[c]
               THEN popChanged[c] \/ <<head, tail, buffer>>' # <<head, tail, buffer>>
               ELSE popChanged[c]]

QueueStep ==
    \/ PushLoadHead
    \/ PushLoadTail
    \/ PushFull
    \/ PushWrite
    \/ PushStoreHead
    \/ \E c \in Consumers : PopLoadTail(c)
    \/ \E c \in Consumers : PopLoadHead(c)
    \/ \E c \in Consumers : PopCasOk(c)
    \/ \E c \in Consumers : PopCasFail(c)
    \/ \E c \in Consumers : PopRead(c)

QueueNext == QueueStep /\ ObserveCalls

(***************************************************************************)
(* Slices and StaticVec (0-based indices over sequences)                   *)
(***************************************************************************)
At(s, i) == s[i + 1]
Put(s, i, x) == [s EXCEPT ![i + 1] = x]

Min(a, b) == IF a < b THEN a ELSE b
\* usize::div_ceil
DivCeil(a, b) == (a + b - 1) \div b

RECURSIVE SvPushAll(_, _, _)
\* StaticVec::push of every item in turn, the result of push ignored
\* (`let _ = v.push(x)`): a push on a full vector changes nothing
SvPushAll(vec, cap, items) ==
    IF items = <<>> THEN vec
    ELSE SvPushAll(IF Len(vec) < cap THEN Append(vec, Head(items)) ELSE vec,
                   cap, Tail(items))

(***************************************************************************)
(* BitPack: a u64 word is the set of its 1 bits                            *)
(***************************************************************************)
WordBits == 64

\* BitPack::get
BitGet(storage, index) ==
    (index % WordBits) \in At(storage, index \div WordBits)

\* BitPack::toggle
BitToggle(storage, index) ==
    LET word == At(storage, index \div WordBits)
        bit  == index % WordBits
    IN  Put(storage, index \div WordBits,
            IF bit \in word THEN word \ {bit} ELSE word \cup {bit})

(***************************************************************************)
(* UnionFind over [parent, rank, parity]                                   *)
(***************************************************************************)
\* UnionFind::new
UnionFindNew(parent, rank, parity) ==
    [parent |-> [k \in 1 .. Len(parent) |-> k - 1],
     rank   |-> [k \in 1 .. Len(rank) |-> IF k <= Len(parent) THEN 0 ELSE rank[k]],
     parity |-> [k \in 1 .. Len(parity) |-> {}]]

RECURSIVE PlainRoot(_, _)
\* the software fallback of find_hardware_accelerated: pointer chasing
\* that writes nothing
PlainRoot(parent, node_idx) ==
    IF At(parent, node_idx) = node_idx THEN node_idx
    ELSE PlainRoot(parent, At(parent, node_idx))

\* a find whose loop body runs at most once
FindLoop_Once(parent, i) ==
    IF i = At(parent, i) THEN [parent |-> parent, root |-> i]
    ELSE [parent |-> Put(parent, i, At(parent, At(parent, i))),
          root |-> At(parent, i)]

RECURSIVE FindLoop(_, _)
\* the loop of UnionFind::find (path halving)
FindLoop(parent, i) ==
    IF i = At(parent, i) THEN [parent |-> parent, root |-> i]
    ELSE LET p  == At(parent, i)
             gp == At(parent, p)
         IN  FindLoop(Put(parent, i, gp), p)

\* UnionFind::find
Find(dsu, i) ==
    LET r == FindLoop(dsu.parent, i)
    IN  [dsu |-> [dsu EXCEPT !.parent = r.parent], root |-> r.root]

\* union that links each of the two roots to the other
Union_BothLinks(dsu, i, j) ==
    LET fi == Find(dsu, i)
        fj == Find(fi.dsu, j)
        d  == fj.dsu
    IN  IF fi.root # fj.root
        THEN [dsu |-> [d EXCEPT !.parent = Put(Put(@, fi.root, fj.root), fj.root, fi.root)],
              merged |-> TRUE]
        ELSE [dsu |-> d, merged |-> FALSE]

\* union without the parity update of the surviving root
Union_NoParity(dsu, i, j) ==
    LET fi == Find(dsu, i)
        fj == Find(fi.dsu, j)
        d  == fj.dsu
        root_i == fi.root
        root_j == fj.root
    IN  IF root_i # root_j
        THEN IF At(d.rank, root_i) < At(d.rank, root_j)
             THEN [dsu |-> [d EXCEPT !.parent = Put(@, root_i, root_j)],
                   merged |-> TRUE]
             ELSE [dsu |-> [d EXCEPT
                              !.parent = Put(@, root_j, root_i),
                              !.rank = IF At(@, root_i) = At(@, root_j)
                                       THEN Put(@, root_i, At(@, root_i) + 1)
                                       ELSE @],
                   merged |-> TRUE]
        ELSE [dsu |-> d, merged |-> FALSE]

Union_NoLink(dsu, i, j) ==
    LET fi == Find(dsu, i)
        fj == Find(fi.dsu, j)
        d  == fj.dsu
        root_i == fi.root
        root_j == fj.root
        p_i == BitGet(d.parity, root_i)
        p_j == BitGet(d.parity, root_j)
    IN  IF root_i # root_j
        THEN IF At(d.rank, root_i) < At(d.rank, root_j)
             THEN [dsu |-> [d EXCEPT
                              !.parity = IF p_i THEN BitToggle(@, root_j) ELSE @],
                   merged |-> TRUE]
             ELSE [dsu |-> [d EXCEPT
                              !.parity = IF p_j THEN BitToggle(@, root_i) ELSE @,
                              !.rank = IF At(@, root_i) = At(@, root_j)
                                       THEN Put(@, root_i, At(@, root_i) + 1)
                                       ELSE @],
                   merged |-> TRUE]
        ELSE [dsu |-> d, merged |-> FALSE]

\* UnionFind::union (software find, feature hw_accel off)
Union(dsu, i, j) ==
    LET fi == Find(dsu, i)
        fj == Find(fi.dsu, j)
        d  == fj.dsu
        root_i == fi.root
        root_j == fj.root
        p_i == BitGet(d.parity, root_i)
        p_j == BitGet(d.parity, root_j)
    IN  IF root_i # root_j
        THEN IF At(d.rank, root_i) < At(d.rank, root_j)
             THEN [dsu |-> [d EXCEPT
                              !.parent = Put(@, root_i, root_j),
                              !.parity = IF p_i THEN BitToggle(@, root_j) ELSE @],
                   merged |-> TRUE]
             ELSE [dsu |-> [d EXCEPT
                              !.parent = Put(@, root_j, root_i),
                              !.parity = IF p_j THEN BitToggle(@, root_i) ELSE @,
                              !.rank = IF At(@, root_i) = At(@, root_j)
                                       THEN Put(@, root_i, At(@, root_i) + 1)
                                       ELSE @],
                   merged |-> TRUE]
        ELSE [dsu |-> d, merged |-> FALSE]

\* toggle_parity that flips the bit of node i itself instead of its root's
ToggleParity_AtNode(dsu, i) ==
    LET f == Find(dsu, i)
    IN  [f.dsu EXCEPT !.parity = BitToggle(@, i)]

\* UnionFind::toggle_parity
ToggleParity(dsu, i) ==
    LET f == Find(dsu, i)
    IN  [f.dsu EXCEPT !.parity = BitToggle(@, f.root)]

(***************************************************************************)
(* DecodingGraph                                                           *)
(***************************************************************************)
\* DecodingGraph::new_in
GraphNew == [fast_edges |-> <<>>, max_node_id |-> 0]

\* an add_edge that records the largest node id instead of the id after it
GraphAddEdge_NoPlusOne(g, u, v) ==
    LET max_idx == IF u > v THEN u ELSE v
    IN  [fast_edges  |-> Append(g.fast_edges, <<u, v>>),
         max_node_id |-> IF max_idx >= g.max_node_id THEN max_idx
                         ELSE g.max_node_id]

\* DecodingGraph::add_edge
GraphAddEdge(g, u, v) ==
    LET max_idx == IF u > v THEN u ELSE v
    IN  [fast_edges  |-> Append(g.fast_edges, <<u, v>>),
         max_node_id |-> IF max_idx >= g.max_node_id THEN max_idx + 1
                         ELSE g.max_node_id]

\* DecodingGraph::num_nodes
NumNodes(g) == g.max_node_id

(***************************************************************************)
(* UnionFindDecoder::solve_into                                            *)
(***************************************************************************)
\* UnionFindDecoder::new
DecoderNew == [parent |-> <<>>, rank |-> <<>>, parity |-> <<>>, touched |-> <<>>]

\* solve_into's locals before any call; unions and passes count the
\* successful unions and the passes of the current call, reused records that
\* the call began on buffers an earlier call had left with odd parity bits
NoSolve == [pc |-> "idle", num_nodes |-> 0, edge_i |-> 0, changed |-> FALSE,
            res |-> "none", unions |-> 0, passes |-> 0, reused |-> FALSE]

\* let num_nodes = graph.num_nodes().min(N)
SolveNumNodes(g, N) == Min(NumNodes(g), N)

ResetBuffers_StaleParity(dec, n, N) ==
    LET zeros   == [k \in 1 .. n |-> 0]
        parent  == SvPushAll(<<>>, N, [k \in 1 .. n |-> k - 1])
        rank    == SvPushAll(<<>>, N, zeros)
        touched == SvPushAll(<<>>, N, zeros)
        parity  == SvPushAll(dec.parity, DivCeil(N, WordBits),
                             [k \in 1 .. DivCeil(n, WordBits) |-> {}])
        dsu     == UnionFindNew(parent, rank, parity)
    IN  [parent |-> dsu.parent, rank |-> dsu.rank, parity |-> parity,
         touched |-> touched]

\* the four buffers after clear(), the pushes of the initial values and
\* UnionFind::new
ResetBuffers(dec, n, N) ==
    LET zeros   == [k \in 1 .. n |-> 0]
        parent  == SvPushAll(<<>>, N, [k \in 1 .. n |-> k - 1])
        rank    == SvPushAll(<<>>, N, zeros)
        touched == SvPushAll(<<>>, N, zeros)
        parity  == SvPushAll(<<>>, DivCeil(N, WordBits),
                             [k \in 1 .. DivCeil(n, WordBits) |-> {}])
        dsu     == UnionFindNew(parent, rank, parity)
    IN  [parent |-> dsu.parent, rank |-> dsu.rank, parity |-> dsu.parity,
         touched |-> touched]

RECURSIVE InjectSyndromes_StopAtFirst(_, _, _)
\* the loop leaving at the first index that is not below num_nodes
InjectSyndromes_StopAtFirst(dec, syn, n) ==
    IF syn = <<>> THEN dec
    ELSE LET idx == Head(syn)
         IN  IF idx < n
             THEN LET dsu == ToggleParity([parent |-> dec.parent, rank |-> dec.rank,
                                           parity |-> dec.parity], idx)
                  IN  InjectSyndromes_StopAtFirst([parent  |-> dsu.parent,
                                                   rank    |-> dsu.rank,
                                                   parity  |-> dsu.parity,
                                                   touched |-> Put(dec.touched, idx, 1)],
                                                  Tail(syn), n)
             ELSE dec

RECURSIVE InjectSyndromes(_, _, _)
\* for &idx in syndrome_indices { if idx < num_nodes { toggle; touched = 1 } }
InjectSyndromes(dec, syn, n) ==
    IF syn = <<>> THEN dec
    ELSE LET idx == Head(syn)
         IN  IF idx < n
             THEN LET dsu == ToggleParity([parent |-> dec.parent, rank |-> dec.rank,
                                           parity |-> dec.parity], idx)
                  IN  InjectSyndromes([parent  |-> dsu.parent,
                                       rank    |-> dsu.rank,
                                       parity  |-> dsu.parity,
                                       touched |-> Put(dec.touched, idx, 1)],
                                      Tail(syn), n)
             ELSE InjectSyndromes(dec, Tail(syn), n)

\* solve_into up to the start of the sweep loop: the decoder's buffers
SolvePrelude(dec, g, syn, N) ==
    LET n == SolveNumNodes(g, N)
    IN  InjectSyndromes(ResetBuffers(dec, n, N), syn, n)

\* the values *touched.get_unchecked(x) can yield: the element when x is in
\* the slice, anything (zero or not) when it is out of bounds
TouchedRead(touched, x) ==
    IF x < Len(touched) THEN {At(touched, x)} ELSE {0, 1}

ShouldMerge_Both(u_active, v_active) == u_active /\ v_active
\* a merge condition that ignores the parities of the two clusters
ShouldMerge_Always(u_active, v_active) == TRUE
\* (u_active || v_active), the left operand of the && before dsu.union
ShouldMerge(u_active, v_active) == u_active \/ v_active

\* a sink that takes one correction more than its capacity
SinkFull_OffByOne(out, cap) == Len(out) > cap

\* StaticVec::push refuses the item: `if self.len < N` is false
SinkFull(out, cap) == Len(out) >= cap

\* the body of `for &(u32_u, u32_v) in &graph.fast_edges` for one edge e.
\* w holds the decoder's buffers, the sink's contents, `changed`, the number
\* of successful unions so far and the outcome; tu and tv are the values the
\* two unchecked reads of touched yield.
EdgeBody(w, e, cap, tu, tv) ==
    LET u == e[1]
        v == e[2]
        n == Len(w.dec.parent)
        dsu0 == [parent |-> w.dec.parent, rank |-> w.dec.rank,
                 parity |-> w.dec.parity]
    IN  IF tu = 0 /\ tv = 0 THEN w
        \* dsu.find(u), dsu.find(v): indexing the slice out of bounds panics
        ELSE IF u >= n \/ v >= n THEN [w EXCEPT !.res = "Panic"]
        ELSE
          LET fu == Find(dsu0, u)
              fv == Find(fu.dsu, v)
              d1 == fv.dsu
              root_u == fu.root
              root_v == fv.root
              u_active == BitGet(d1.parity, root_u)
              v_active == BitGet(d1.parity, root_v)
              un == Union(d1, u, v)
              d2 == un.dsu
          IN  IF root_u = root_v
              THEN [w EXCEPT !.dec.parent = d1.parent]
              ELSE IF ~ShouldMerge(u_active, v_active) \/ ~un.merged
                   THEN [w EXCEPT !.dec.parent = d1.parent]
                   \* out_buffer.push_correction(u, v)? on a full sink
                   ELSE IF SinkFull(w.out, cap)
                        THEN [w EXCEPT !.dec.parent = d2.parent,
                                       !.dec.rank = d2.rank,
                                       !.dec.parity = d2.parity,
                                       !.unions = @ + 1,
                                       !.res = "BufferOverflow"]
                        ELSE [w EXCEPT !.dec.parent = d2.parent,
                                       !.dec.rank = d2.rank,
                                       !.dec.parity = d2.parity,
                                       !.dec.touched = Put(Put(@, u, 1), v, 1),
                                       !.unions = @ + 1,
                                       !.out = Append(@, <<u, v>>),
                                       !.changed = TRUE]

RECURSIVE RunSweep(_, _, _, _)
\* the loop of solve_into from edge i of the current pass to the return; an
\* out-of-bounds read of touched is taken to yield 0 (any other value makes
\* the following find panic)
RunSweep(w, edges, i, cap) ==
    IF w.res # "run" THEN w
    ELSE IF i > Len(edges)
         THEN IF w.changed
              THEN RunSweep([w EXCEPT !.changed = FALSE], edges, 1, cap)
              ELSE [w EXCEPT !.res = "Ok"]
         ELSE LET e  == edges[i]
                  tu == IF e[1] < Len(w.dec.touched) THEN At(w.dec.touched, e[1]) ELSE 0
                  tv == IF e[2] < Len(w.dec.touched) THEN At(w.dec.touched, e[2]) ELSE 0
              IN  RunSweep(EdgeBody(w, e, cap, tu, tv), edges, i + 1, cap)

\* solve_into run to its end on a decoder just made by UnionFindDecoder::new
FreshRun(g, syn, cap, N) ==
    RunSweep([dec |-> SolvePrelude(DecoderNew, g, syn, N), out |-> <<>>,
              changed |-> FALSE, unions |-> 0, res |-> "run"],
             g.fast_edges, 1, cap)

\* the working record of a call in the current state
Work == [dec |-> decoder, out |-> out_buffer, changed |-> solve.changed,
         unions |-> solve.unions, res |-> "run"]

\* the chain graph of the end-to-end scenarios
ChainEdges == <<<<0, 1>>, <<1, 2>>, <<2, 3>>>>

\* all sequences over S of length at most n
SeqsUpTo(S, n) == UNION {[1 .. k -> S] : k \in 0 .. n}

NodeIds == 0 .. MaxNodeId

\* the graph and the decoder after construction
DecoderInit ==
    /\ graph = GraphNew
    /\ dec_N = DN
    /\ decoder = DecoderNew
    /\ out_buffer = <<>>
    /\ out_cap = 0
    /\ syndrome_indices = <<>>
    /\ solve = NoSolve

\* graph.add_edge(u, v, w)
GraphGrow(u, v) ==
    /\ graph' = GraphAddEdge(graph, u, v)
    /\ UNCHANGED <<dec_N, decoder, out_buffer, out_cap, syndrome_indices, solve>>
    /\ UNCHANGED decoderFrame

\* the loader builds the graph before the decoder is first used
AddEdge ==
    /\ solve.pc = "idle"
    /\ solve.res = "none"
    /\ Len(graph.fast_edges) < MaxEdges
    /\ \E u \in NodeIds, v \in NodeIds : GraphGrow(u, v)

\* the graph is extended between two calls of solve_into
AddEdgeLater ==
    /\ solve.pc = "idle"
    /\ solve.res # "none"
    /\ Len(graph.fast_edges) < MaxEdges
    /\ \E u \in NodeIds, v \in NodeIds : GraphGrow(u, v)

\* decoder.solve_into(graph, syn, out) with a sink of capacity cap: the
\* call up to the first iteration of `loop`
SolveCall(syn, cap) ==
    /\ syndrome_indices' = syn
    /\ out_cap' = cap
    /\ out_buffer' = <<>>
    /\ decoder' = SolvePrelude(decoder, graph, syn, dec_N)
    /\ solve' = [pc |-> "sweep", num_nodes |-> SolveNumNodes(graph, dec_N),
                 edge_i |-> 1, changed |-> FALSE, res |-> "none",
                 unions |-> 0, passes |-> 1,
                 reused |-> \E k \in 1 .. Len(decoder.parity) :
                              decoder.parity[k] # {}]
    /\ UNCHANGED <<graph, dec_N>>
    /\ UNCHANGED decoderFrame

\* the first call on a newly constructed decoder
SolveBegin ==
    /\ solve.pc = "idle"
    /\ solve.res = "none"
    /\ \E syn \in SeqsUpTo(NodeIds, MaxSyn), cap \in 0 .. dec_N :
         SolveCall(syn, cap)

\* a call on a decoder that is reused call after call (the worker loop and
\* the VM keep one decoder), with a sink no run can fill
SolveAgain ==
    /\ solve.pc = "idle"
    /\ \E syn \in SeqsUpTo(NodeIds, MaxSyn) : SolveCall(syn, dec_N)

\* the first call on the chain graph
SolveChain ==
    /\ solve.pc = "idle"
    /\ solve.res = "none"
    /\ \E syn \in SeqsUpTo(0 .. NumNodes(graph), Len(ChainEdges)),
          cap \in 0 .. dec_N :
         SolveCall(syn, cap)

\* one iteration of the for loop over graph.fast_edges
SweepEdge ==
    /\ solve.pc = "sweep"
    /\ solve.edge_i <= Len(graph.fast_edges)
    /\ LET e == graph.fast_edges[solve.edge_i]
       IN  \E tu \in TouchedRead(decoder.touched, e[1]),
              tv \in TouchedRead(decoder.touched, e[2]) :
             \E w \in {EdgeBody(Work, e, out_cap, tu, tv)} :
                 /\ decoder' = w.dec
                 /\ out_buffer' = w.out
                 /\ solve' = [solve EXCEPT
                       !.changed = w.changed,
                       !.unions = w.unions,
                       !.edge_i = @ + 1,
                       !.res = IF w.res = "run" THEN "none" ELSE w.res,
                       !.pc = IF w.res = "run" THEN "sweep"
                              ELSE IF w.res = "Panic" THEN "panicked"
                              ELSE "idle"]
    /\ UNCHANGED <<graph, dec_N, out_cap, syndrome_indices>>
    /\ UNCHANGED decoderFrame

PassRepeat_KeepChanged ==
    /\ solve.pc = "sweep"
    /\ solve.edge_i > Len(graph.fast_edges)
    /\ solve.changed
    /\ solve' = [solve EXCEPT !.edge_i = 1, !.passes = @ + 1]
    /\ UNCHANGED <<graph, dec_N, decoder, out_buffer, out_cap, syndrome_indices>>
    /\ UNCHANGED decoderFrame

\* end of a pass with changed = true: loop { let mut changed = false; ...
PassRepeat ==
    /\ solve.pc = "sweep"
    /\ solve.edge_i > Len(graph.fast_edges)
    /\ solve.changed
    /\ solve' = [solve EXCEPT !.changed = FALSE, !.edge_i = 1, !.passes = @ + 1]
    /\ UNCHANGED <<graph, dec_N, decoder, out_buffer, out_cap, syndrome_indices>>
    /\ UNCHANGED decoderFrame

\* end of a pass with changed = false: break; Ok(())
SolveReturn ==
    /\ solve.pc = "sweep"
    /\ solve.edge_i > Len(graph.fast_edges)
    /\ ~solve.changed
    /\ solve' = [solve EXCEPT !.pc = "idle", !.res = "Ok"]
    /\ UNCHANGED <<graph, dec_N, decoder, out_buffer, out_cap, syndrome_indices>>
    /\ UNCHANGED decoderFrame

SolveStep == SweepEdge \/ PassRepeat \/ SolveReturn

DecoderNext ==
    \/ AddEdge
    \/ SolveBegin
    \/ SweepEdge
    \/ PassRepeat
    \/ SolveReturn

\* the decoder reused for call after call, the graph growing in between
ReuseNext ==
    \/ AddEdge
    \/ AddEdgeLater
    \/ SolveAgain
    \/ SweepEdge
    \/ PassRepeat
    \/ SolveReturn

(***************************************************************************)
(* The chain graph of the end-to-end scenarios                             *)
(***************************************************************************)
RECURSIVE GraphOf(_)
\* the graph built by add_edge calls for the edges of a list, in order
GraphOf(edges) ==
    IF edges = <<>> THEN GraphNew
    ELSE LET e == edges[Len(edges)]
         IN  GraphAddEdge(GraphOf(SubSeq(edges, 1, Len(edges) - 1)), e[1], e[2])

ChainInit ==
    /\ graph = GraphOf(ChainEdges)
    /\ dec_N = NumNodes(GraphOf(ChainEdges))
    /\ decoder = DecoderNew
    /\ out_buffer = <<>>
    /\ out_cap = 0
    /\ syndrome_indices = <<>>
    /\ solve = NoSolve

ChainNext ==
    \/ SolveChain
    \/ SweepEdge
    \/ PassRepeat
    \/ SolveReturn

\* the graph of two components {0,1} and {2,3}, and the graph of one edge
PairEdges == <<<<0, 1>>, <<2, 3>>>>

SingleEdge == <<<<0, 1>>>>

\* the decoder of the chain scenario with one of the scenario graphs loaded
ScenarioInit ==
    /\ graph \in {GraphOf(ChainEdges), GraphOf(PairEdges), GraphOf(SingleEdge)}
    /\ dec_N = NumNodes(GraphOf(ChainEdges))
    /\ decoder = DecoderNew
    /\ out_buffer = <<>>
    /\ out_cap = 0
    /\ syndrome_indices = <<>>
    /\ solve = NoSolve

(***************************************************************************)
(* UnionFind driven through its interface                                  *)
(***************************************************************************)
\* BitPack::set
BitSet(storage, index, val) ==
    LET word == At(storage, index \div WordBits)
        bit  == index % WordBits
    IN  Put(storage, index \div WordBits,
            IF val THEN word \cup {bit} ELSE word \ {bit})

\* UnionFind::set_parity
SetParity(dsu, i, is_odd) ==
    LET f == Find(dsu, i)
    IN  [f.dsu EXCEPT !.parity = BitSet(@, f.root, is_odd)]

\* UnionFind::new on slices for n nodes
DsuInitN(n) ==
    /\ uf = UnionFindNew([k \in 1 .. n |-> 0], [k \in 1 .. n |-> 0],
                         [k \in 1 .. DivCeil(n, WordBits) |-> {}])
    /\ uf_toggles = <<>>
    /\ uf_set = FALSE

DsuInit == DsuInitN(DsuN)

DeepInit == DsuInitN(DeepN)

\* the node indices of the UnionFind
UfNodes == 0 .. Len(uf.parent) - 1

\* dsu.find(i)
DsuFind ==
    /\ \E i \in UfNodes : uf' = Find(uf, i).dsu
    /\ UNCHANGED <<uf_toggles, uf_set>>
    /\ UNCHANGED dsuFrame

\* dsu.union(i, j)
DsuUnion ==
    /\ \E i \in UfNodes, j \in UfNodes : uf' = Union(uf, i, j).dsu
    /\ UNCHANGED <<uf_toggles, uf_set>>
    /\ UNCHANGED dsuFrame

\* dsu.toggle_parity(i)
DsuToggleParity ==
    /\ Len(uf_toggles) < MaxToggles
    /\ \E i \in UfNodes :
          /\ uf' = ToggleParity(uf, i)
          /\ uf_toggles' = Append(uf_toggles, i)
    /\ UNCHANGED uf_set
    /\ UNCHANGED dsuFrame

\* dsu.set_parity(i, is_odd)
DsuSetParity ==
    /\ \E i \in UfNodes, is_odd \in BOOLEAN : uf' = SetParity(uf, i, is_odd)
    /\ uf_set' = TRUE
    /\ UNCHANGED uf_toggles
    /\ UNCHANGED dsuFrame

DsuNext ==
    \/ DsuFind
    \/ DsuUnion
    \/ DsuToggleParity
    \/ DsuSetParity

\* dsu.union(i, j) with i < j
DeepUnion ==
    /\ \E i \in UfNodes, j \in UfNodes : i < j /\ uf' = Union(uf, i, j).dsu
    /\ UNCHANGED <<uf_toggles, uf_set>>
    /\ UNCHANGED dsuFrame

\* unions and finds only
DeepNext ==
    \/ DsuFind
    \/ DeepUnion

(***************************************************************************)
(* The firmware: primary_main feeds JOB_QUEUE, worker_main drains it       *)
(***************************************************************************)
\* const WORDS_PER_SHOT: the u64 words of one shot (W)
WORDS_PER_SHOT == 160

\* bench_data::BENCH_DATA.len(): the table holds S shots of W words each
BenchDataLen == TOTAL_SHOTS * WORDS_PER_SHOT

\* primary_main before its loop: let mut data_idx = 0; QUEUE_DEPTH is 0
PrimaryInit ==
    /\ data_idx = 0
    /\ QUEUE_DEPTH = 0
    /\ prim_pc = "pace"
    /\ packet = [shot_id |-> 0, syndromes |-> <<>>]
    /\ prim_last = "none"

\* what the push loop and the workers' pops leave alone outside the queue
systemFrame == <<dvars, uvars, fvars, lvars>>

\* the queue's variables other than the result of the last push
queueRest == <<head, tail, buffer, ppc, push_head, push_tail, push_item,
               push_buf0, nextItem, pushedSeq, cpc, pop_tail, pop_head,
               popped>>

\* a bounds test that takes the last shot of the table for out of range
InTable_Strict(offset) == offset + WORDS_PER_SHOT < BenchDataLen

\* `if offset + WORDS_PER_SHOT <= bench_data::BENCH_DATA.len()`
InTable(offset) == offset + WORDS_PER_SHOT <= BenchDataLen

\* the shot index of the iteration: data_idx, or 0 when the table ends
\* before offset + WORDS_PER_SHOT
ShotIndex(idx) ==
    LET offset == idx * WORDS_PER_SHOT
    IN  IF InTable(offset) THEN idx ELSE 0

\* the local syndromes buffer: the slice BENCH_DATA[offset..offset + W),
\* given by its two bounds, or the zeros it was initialised with (<<>>)
ShotSyndromes(idx) ==
    LET offset == idx * WORDS_PER_SHOT
    IN  IF InTable(offset) THEN <<offset, offset + WORDS_PER_SHOT>> ELSE <<>>

\* the copy of the shot (with the reset of data_idx) and the packet
BuildPacket ==
    /\ data_idx' = ShotIndex(data_idx)
    /\ packet' = [shot_id |-> ShotIndex(data_idx), syndromes |-> ShotSyndromes(data_idx)]
    /\ prim_pc' = "push"
    /\ UNCHANGED <<QUEUE_DEPTH, prim_last>>

\* an iteration whose pacing check passes, up to the call of push: the shot
\* at data_idx is copied (or data_idx is reset to 0 when the table ends
\* before it) and the packet is built; the timestamp is not modelled
PrimaryTick ==
    /\ prim_pc = "pace"
    /\ BuildPacket
    /\ UNCHANGED <<queueRest, push_res, pop_res, systemFrame>>

\* JOB_QUEUE.push(packet) is called once per iteration
PrimaryPush ==
    /\ prim_pc = "push"
    /\ push_res = NoRes
    /\ PushLoadHead

\* push that advances data_idx and QUEUE_DEPTH whatever push returned
PrimaryAfterPush_AlwaysAdvance ==
    /\ prim_pc = "push"
    /\ ppc = "idle"
    /\ push_res.kind \in {"Ok", "Err"}
    /\ QUEUE_DEPTH' = QUEUE_DEPTH + 1
    /\ data_idx' = (data_idx + 1) % TOTAL_SHOTS
    /\ prim_last' = push_res.kind
    /\ push_res' = NoRes
    /\ prim_pc' = "pace"
    /\ UNCHANGED packet
    /\ UNCHANGED <<queueRest, pop_res, systemFrame>>

\* if JOB_QUEUE.push(packet).is_ok() { QUEUE_DEPTH.fetch_add(1); data_idx =
\* (data_idx + 1) % TOTAL_SHOTS }, then the telemetry branch (which touches
\* neither) and back to the top of the loop
PrimaryAfterPush ==
    /\ prim_pc = "push"
    /\ ppc = "idle"
    /\ push_res.kind \in {"Ok", "Err"}
    /\ IF push_res.kind = "Ok"
       THEN /\ QUEUE_DEPTH' = QUEUE_DEPTH + 1
            /\ data_idx' = (data_idx + 1) % TOTAL_SHOTS
       ELSE UNCHANGED <<QUEUE_DEPTH, data_idx>>
    /\ prim_last' = push_res.kind
    /\ push_res' = NoRes
    /\ prim_pc' = "pace"
    /\ UNCHANGED packet
    /\ UNCHANGED <<queueRest, pop_res, systemFrame>>

\* worker_main: JOB_QUEUE.pop() is called again after None, and after the
\* packet of the previous Some has been taken
WorkerPop(c) ==
    /\ pop_res[c].kind # "Some"
    /\ PopLoadTail(c)

\* if let Some(packet) = JOB_QUEUE.pop() { QUEUE_DEPTH.fetch_sub(1); ... }:
\* the packet is the worker's from here on
WorkerAfterPop(c) ==
    /\ cpc[c] = "idle"
    /\ pop_res[c].kind = "Some"
    /\ QUEUE_DEPTH' = QUEUE_DEPTH - 1
    /\ pop_res' = [pop_res EXCEPT ![c].kind = "Taken"]
    /\ UNCHANGED <<data_idx, prim_pc, packet, prim_last>>
    /\ UNCHANGED <<queueRest, push_res, systemFrame>>

SystemStep ==
    \/ PrimaryTick
    \/ PrimaryPush
    \/ PushLoadTail
    \/ PushFull
    \/ PushWrite
    \/ PushStoreHead
    \/ PrimaryAfterPush
    \/ \E c \in Consumers : WorkerPop(c)
    \/ \E c \in Consumers : PopLoadHead(c)
    \/ \E c \in Consumers : PopCasOk(c)
    \/ \E c \in Consumers : PopCasFail(c)
    \/ \E c \in Consumers : PopRead(c)
    \/ \E c \in Consumers : WorkerAfterPop(c)

SystemNext == SystemStep /\ ObserveCalls
(***************************************************************************)
(* The firmware from boot: graph publication, clock, telemetry, the        *)
(* workers' decode and the latency counters                                *)
(***************************************************************************)
\* 2^w, one more than u64::MAX in a word of w bits
U64_MAX == 2 ^ ClockBits - 1

\* a.wrapping_sub(b)
WrappingSub(a, b) == (a - b) % (U64_MAX + 1)

\* a.wrapping_add(b), the arithmetic of AtomicU64::fetch_add
WrappingAdd(a, b) == (a + b) % (U64_MAX + 1)

\* the edges parse_graph_dem reads from DEM_DATA
BootEdges == <<<<0, 1>>, <<1, 2>>>>

\* the syndrome lists a worker can extract from a packet of the table
BenchSyndromes == SeqsUpTo(0 .. Len(BootEdges), 1)

counters == <<TOTAL_PROCESSED, LATENCY_SUM, LATENCY_MAX, LATENCY_MIN>>
bootState == <<boot_pc, SYSTEM_READY, GRAPH_REF>>
teleState == <<prim_now, last_print_time, tele_pc>>
workerState == <<wpc, wlat>>
decoderRest == <<dec_N, decoder, out_buffer, out_cap, syndrome_indices, solve>>
queueCalls == <<queueRest, push_res, pop_res>>

\* the statics' initial values and both loops' locals before boot
FirmwareInit ==
    /\ now = 0
    /\ boot_pc = "parse"
    /\ SYSTEM_READY = FALSE
    /\ GRAPH_REF = "None"
    /\ stamp = [k \in 0 .. MaxPush - 1 |-> 0]
    /\ prim_now = 0
    /\ last_print_time = 0
    /\ tele_pc = "none"
    /\ wpc = [c \in Consumers |-> "spin"]
    /\ wlat = [c \in Consumers |-> 0]
    /\ TOTAL_PROCESSED = 0
    /\ LATENCY_SUM = 0
    /\ LATENCY_MAX = 0
    /\ LATENCY_MIN = U64_MAX
    /\ lats = [l \in 0 .. U64_MAX |-> 0]
    /\ resets = FALSE

\* (MTIME_ADDR as *const u64).read_volatile(): the counter is monotonic, a
\* read yields a value that is not below the last value read
ReadClock(t) == t \in now .. MaxNow /\ now' = t

\* parse_graph_dem: graph.add_edge(u, v, 1.0) for the next edge of the file
BootAddEdge ==
    /\ boot_pc = "parse"
    /\ Len(graph.fast_edges) < Len(BootEdges)
    /\ LET e == BootEdges[Len(graph.fast_edges) + 1]
       IN  graph' = GraphAddEdge(graph, e[1], e[2])
    /\ UNCHANGED <<now, bootState, stamp, teleState, workerState, counters,
                   lats, resets>>
    /\ UNCHANGED <<queueCalls, decoderRest, uvars, lvars, pvars>>

\* *GRAPH_REF.get_mut() = Some(leaked_graph)
BootPublish ==
    /\ boot_pc = "parse"
    /\ Len(graph.fast_edges) = Len(BootEdges)
    /\ GRAPH_REF' = "Some"
    /\ boot_pc' = "ready"
    /\ UNCHANGED <<now, SYSTEM_READY, stamp, teleState, workerState, counters,
                   lats, resets>>
    /\ UNCHANGED <<queueCalls, dvars, uvars, lvars, pvars>>

\* SYSTEM_READY.store(true, Release), then the locals of the loop
BootReady ==
    /\ boot_pc = "ready"
    /\ SYSTEM_READY' = TRUE
    /\ boot_pc' = "loop"
    /\ \E t \in now .. MaxNow : ReadClock(t) /\ last_print_time' = t
    /\ UNCHANGED <<GRAPH_REF, stamp, prim_now, tele_pc, workerState,
                   counters, lats, resets>>
    /\ UNCHANGED <<queueCalls, dvars, uvars, lvars, pvars>>

\* an iteration of the primary loop whose pacing check passes, up to the
\* call of push: now is read and stamped on the packet; whether the
\* telemetry branch of this iteration will be taken depends on this now
FwTick ==
    /\ boot_pc = "loop"
    /\ prim_pc = "pace"
    /\ tele_pc = "none"
    /\ nextItem < MaxPush
    /\ BuildPacket
    /\ \E t \in now .. MaxNow :
         /\ ReadClock(t)
         /\ stamp' = [stamp EXCEPT ![nextItem] = t]
         /\ IF WrappingSub(t, last_print_time) >= TelemetryPeriod
            THEN tele_pc' = "due" /\ prim_now' = t
            ELSE tele_pc' = "none" /\ prim_now' = 0
    /\ UNCHANGED <<bootState, last_print_time, workerState, counters,
                   lats, resets>>
    /\ UNCHANGED <<queueCalls, dvars, uvars, lvars>>

\* the telemetry branch: TOTAL_PROCESSED.load, QUEUE_DEPTH.load,
\* LATENCY_SUM.swap(0)
TeleSwapSum ==
    /\ prim_pc = "pace"
    /\ tele_pc = "due"
    /\ LATENCY_SUM' = 0
    /\ tele_pc' = "swap_max"
    /\ resets' = TRUE
    /\ UNCHANGED <<now, bootState, stamp, prim_now, last_print_time,
                   workerState, TOTAL_PROCESSED, LATENCY_MAX, LATENCY_MIN,
                   lats>>
    /\ UNCHANGED <<queueCalls, dvars, uvars, lvars, pvars>>

\* LATENCY_MAX.swap(0)
TeleSwapMax ==
    /\ prim_pc = "pace"
    /\ tele_pc = "swap_max"
    /\ LATENCY_MAX' = 0
    /\ tele_pc' = "swap_min"
    /\ resets' = TRUE
    /\ UNCHANGED <<now, bootState, stamp, prim_now, last_print_time,
                   workerState, TOTAL_PROCESSED, LATENCY_SUM, LATENCY_MIN,
                   lats>>
    /\ UNCHANGED <<queueCalls, dvars, uvars, lvars, pvars>>

\* the last swap resetting latency_min to 0
TeleSwapMin_Zero ==
    /\ prim_pc = "pace"
    /\ tele_pc = "swap_min"
    /\ LATENCY_MIN' = 0
    /\ last_print_time' = prim_now
    /\ prim_now' = 0
    /\ tele_pc' = "none"
    /\ resets' = TRUE
    /\ UNCHANGED <<now, bootState, stamp, workerState,
                   TOTAL_PROCESSED, LATENCY_SUM, LATENCY_MAX, lats>>
    /\ UNCHANGED <<queueCalls, dvars, uvars, lvars, pvars>>

\* LATENCY_MIN.swap(u64::MAX); the report; last_print_time = now
TeleSwapMin ==
    /\ prim_pc = "pace"
    /\ tele_pc = "swap_min"
    /\ LATENCY_MIN' = U64_MAX
    /\ last_print_time' = prim_now
    /\ prim_now' = 0
    /\ tele_pc' = "none"
    /\ resets' = TRUE
    /\ UNCHANGED <<now, bootState, stamp, workerState,
                   TOTAL_PROCESSED, LATENCY_SUM, LATENCY_MAX, lats>>
    /\ UNCHANGED <<queueCalls, dvars, uvars, lvars, pvars>>

\* worker that goes on without looking at SYSTEM_READY
WorkerSpin_NoWait(c) ==
    /\ wpc[c] = "spin"
    /\ wpc' = [wpc EXCEPT ![c] = "graph"]
    /\ UNCHANGED <<now, bootState, stamp, teleState, wlat, counters,
                   lats, resets>>
    /\ UNCHANGED <<queueCalls, dvars, uvars, lvars, pvars>>

\* while !SYSTEM_READY.load(Acquire) { spin_loop() }
WorkerSpin(c) ==
    /\ wpc[c] = "spin"
    /\ wpc' = [wpc EXCEPT ![c] = IF SYSTEM_READY THEN "graph" ELSE "spin"]
    /\ UNCHANGED <<now, bootState, stamp, teleState, wlat, counters,
                   lats, resets>>
    /\ UNCHANGED <<queueCalls, dvars, uvars, lvars, pvars>>

\* let graph = GRAPH_REF.get().as_ref().unwrap(); the decoder and the two
\* StaticVecs are made
WorkerGraph(c) ==
    /\ wpc[c] = "graph"
    /\ wpc' = [wpc EXCEPT ![c] = IF GRAPH_REF = "Some" THEN "pop" ELSE "panicked"]
    /\ UNCHANGED <<now, bootState, stamp, teleState, wlat, counters,
                   lats, resets>>
    /\ UNCHANGED <<queueCalls, dvars, uvars, lvars, pvars>>

\* JOB_QUEUE.pop() is called by a worker in its loop
FwPop(c) ==
    /\ wpc[c] = "pop"
    /\ WorkerPop(c)

\* QUEUE_DEPTH.fetch_sub(1, Relaxed)
FwDepth(c) ==
    /\ wpc[c] = "pop"
    /\ WorkerAfterPop(c)

\* decode that goes on to the counter updates whatever solve_into returned
FwDecode_CountErrors(c) ==
    /\ wpc[c] = "pop"
    /\ pop_res[c].kind = "Taken"
    /\ pop_res' = [pop_res EXCEPT ![c] = NoRes]
    /\ \E syn \in BenchSyndromes :
         \E r \in {FreshRun(graph, syn, FwCorrCap, dec_N).res} :
            IF r = "Ok"
            THEN \E t \in now .. MaxNow :
                   /\ ReadClock(t)
                   /\ wlat' = [wlat EXCEPT ![c] = WrappingSub(t, stamp[pop_res[c].item])]
                   /\ lats' = [lats EXCEPT ![WrappingSub(t, stamp[pop_res[c].item])] = @ + 1]
                   /\ wpc' = [wpc EXCEPT ![c] = "add_total"]
            ELSE /\ wpc' = [wpc EXCEPT ![c] = "add_total"]
                 /\ UNCHANGED <<now, wlat, lats>>
    /\ UNCHANGED <<bootState, stamp, teleState, counters, resets>>
    /\ UNCHANGED <<queueRest, push_res, dvars, uvars, lvars, pvars>>

\* the syndrome indices are extracted and decoder.solve_into(graph,
\* &syndrome_indices, &mut corrections) is run; on Ok now is read and
\* latency = now.wrapping_sub(packet.timestamp)
FwDecode(c) ==
    /\ wpc[c] = "pop"
    /\ pop_res[c].kind = "Taken"
    /\ pop_res' = [pop_res EXCEPT ![c] = NoRes]
    /\ \E syn \in BenchSyndromes :
         \E r \in {FreshRun(graph, syn, FwCorrCap, dec_N).res} :
            IF r = "Ok"
            THEN \E t \in now .. MaxNow :
                   /\ ReadClock(t)
                   /\ wlat' = [wlat EXCEPT ![c] = WrappingSub(t, stamp[pop_res[c].item])]
                   /\ lats' = [lats EXCEPT ![WrappingSub(t, stamp[pop_res[c].item])] = @ + 1]
                   /\ wpc' = [wpc EXCEPT ![c] = "add_total"]
            ELSE /\ wpc' = [wpc EXCEPT ![c] = IF r = "Panic" THEN "panicked" ELSE "pop"]
                 /\ UNCHANGED <<now, wlat, lats>>
    /\ UNCHANGED <<bootState, stamp, teleState, counters, resets>>
    /\ UNCHANGED <<queueRest, push_res, dvars, uvars, lvars, pvars>>

\* TOTAL_PROCESSED.fetch_add(1, Relaxed)
FwAddTotal(c) ==
    /\ wpc[c] = "add_total"
    /\ TOTAL_PROCESSED' = WrappingAdd(TOTAL_PROCESSED, 1)
    /\ wpc' = [wpc EXCEPT ![c] = "add_sum"]
    /\ UNCHANGED <<now, bootState, stamp, teleState, wlat,
                   LATENCY_SUM, LATENCY_MAX, LATENCY_MIN, lats, resets>>
    /\ UNCHANGED <<queueCalls, dvars, uvars, lvars, pvars>>

\* LATENCY_SUM.fetch_add(latency, Relaxed)
FwAddSum(c) ==
    /\ wpc[c] = "add_sum"
    /\ LATENCY_SUM' = WrappingAdd(LATENCY_SUM, wlat[c])
    /\ wpc' = [wpc EXCEPT ![c] = "fetch_max"]
    /\ UNCHANGED <<now, bootState, stamp, teleState, wlat,
                   TOTAL_PROCESSED, LATENCY_MAX, LATENCY_MIN, lats, resets>>
    /\ UNCHANGED <<queueCalls, dvars, uvars, lvars, pvars>>

\* LATENCY_MAX.fetch_max(latency, Relaxed)
FwFetchMax(c) ==
    /\ wpc[c] = "fetch_max"
    /\ LATENCY_MAX' = IF wlat[c] > LATENCY_MAX THEN wlat[c] ELSE LATENCY_MAX
    /\ wpc' = [wpc EXCEPT ![c] = "fetch_min"]
    /\ UNCHANGED <<now, bootState, stamp, teleState, wlat,
                   TOTAL_PROCESSED, LATENCY_SUM, LATENCY_MIN, lats, resets>>
    /\ UNCHANGED <<queueCalls, dvars, uvars, lvars, pvars>>

\* fetch_min replaced by a plain store of the latency
FwFetchMin_Store(c) ==
    /\ wpc[c] = "fetch_min"
    /\ LATENCY_MIN' = wlat[c]
    /\ wlat' = [wlat EXCEPT ![c] = 0]
    /\ wpc' = [wpc EXCEPT ![c] = "pop"]
    /\ UNCHANGED <<now, bootState, stamp, teleState,
                   TOTAL_PROCESSED, LATENCY_SUM, LATENCY_MAX, lats, resets>>
    /\ UNCHANGED <<queueCalls, dvars, uvars, lvars, pvars>>

\* LATENCY_MIN.fetch_min(latency, Relaxed), and back to the pop
FwFetchMin(c) ==
    /\ wpc[c] = "fetch_min"
    /\ LATENCY_MIN' = Min(wlat[c], LATENCY_MIN)
    /\ wlat' = [wlat EXCEPT ![c] = 0]
    /\ wpc' = [wpc EXCEPT ![c] = "pop"]
    /\ UNCHANGED <<now, bootState, stamp, teleState,
                   TOTAL_PROCESSED, LATENCY_SUM, LATENCY_MAX, lats, resets>>
    /\ UNCHANGED <<queueCalls, dvars, uvars, lvars, pvars>>

FirmwareStep ==
    \/ BootAddEdge
    \/ BootPublish
    \/ BootReady
    \/ FwTick
    \/ PrimaryPush
    \/ PushLoadTail
    \/ PushFull
    \/ PushWrite
    \/ PushStoreHead
    \/ PrimaryAfterPush
    \/ TeleSwapSum
    \/ TeleSwapMax
    \/ TeleSwapMin
    \/ \E c \in Consumers : WorkerSpin(c)
    \/ \E c \in Consumers : WorkerGraph(c)
    \/ \E c \in Consumers : FwPop(c)
    \/ \E c \in Consumers : PopLoadHead(c)
    \/ \E c \in Consumers : PopCasOk(c)
    \/ \E c \in Consumers : PopCasFail(c)
    \/ \E c \in Consumers : PopRead(c)
    \/ \E c \in Consumers : FwDepth(c)
    \/ \E c \in Consumers : FwDecode(c)
    \/ \E c \in Consumers : FwAddTotal(c)
    \/ \E c \in Consumers : FwAddSum(c)
    \/ \E c \in Consumers : FwFetchMax(c)
    \/ \E c \in Consumers : FwFetchMin(c)

FirmwareNext == FirmwareStep /\ ObserveCalls

(***************************************************************************)
(* worker_main: the expansion of packet.syndromes into syndrome_indices    *)
(***************************************************************************)
\* a detector index that leaves out the word's base
DetectorIndex_BitOnly(i, bit) == bit

\* i * 64 + bit
DetectorIndex(i, bit) == i * ExpBits + bit

\* a popped packet with arbitrary syndrome words, after
\* syndrome_indices.clear()
ExpandInit ==
    /\ exp_syndromes \in [1 .. ExpWords -> 0 .. 2 ^ ExpBits - 1]
    /\ exp_indices = <<>>
    /\ exp_i = 0
    /\ exp_w = 0
    /\ exp_bit = 0
    /\ exp_pc = "for"

\* the expansion of the other specifications: a packet of zero words
ExpandIdle ==
    /\ exp_syndromes = [k \in 1 .. ExpWords |-> 0]
    /\ exp_indices = <<>>
    /\ exp_i = 0
    /\ exp_w = 0
    /\ exp_bit = 0
    /\ exp_pc = "for"

\* for (i, &word) in packet.syndromes.iter().enumerate(): the next word;
\* let mut w = word; let mut bit = 0
ExpandWord ==
    /\ exp_pc = "for"
    /\ exp_i < Len(exp_syndromes)
    /\ exp_w' = exp_syndromes[exp_i + 1]
    /\ exp_bit' = 0
    /\ exp_pc' = "while"
    /\ UNCHANGED <<exp_syndromes, exp_indices, exp_i, expandFrame>>

\* one iteration of `while w > 0`: push i * 64 + bit when w & 1 == 1 (the
\* result of push ignored), then w >>= 1 and bit += 1
ExpandBit ==
    /\ exp_pc = "while"
    /\ exp_w > 0
    /\ exp_indices' = IF exp_w % 2 = 1
                      THEN SvPushAll(exp_indices, ExpCap, <<DetectorIndex(exp_i, exp_bit)>>)
                      ELSE exp_indices
    /\ exp_w' = exp_w \div 2
    /\ exp_bit' = exp_bit + 1
    /\ UNCHANGED <<exp_syndromes, exp_i, exp_pc, expandFrame>>

\* `while w > 0` is false: on to the next word
ExpandWordDone ==
    /\ exp_pc = "while"
    /\ exp_w = 0
    /\ exp_i' = exp_i + 1
    /\ exp_bit' = 0
    /\ exp_pc' = "for"
    /\ UNCHANGED <<exp_syndromes, exp_indices, exp_w, expandFrame>>

\* the enumerate loop is exhausted
ExpandEnd ==
    /\ exp_pc = "for"
    /\ exp_i >= Len(exp_syndromes)
    /\ exp_pc' = "done"
    /\ UNCHANGED <<exp_syndromes, exp_indices, exp_i, exp_w, exp_bit, expandFrame>>

ExpandNext ==
    \/ ExpandWord
    \/ ExpandBit
    \/ ExpandWordDone
    \/ ExpandEnd

(***************************************************************************)
(* BumpAllocator (qcu_core/src/allocator.rs)                               *)
(***************************************************************************)
AllocThreadIds == 0 .. AllocThreads - 1

\* usize::MAX and isize::MAX at the model's width
USIZE_MAX == 2 ^ AllocBits - 1
ISIZE_MAX == 2 ^ (AllocBits - 1) - 1

\* wrapping usize arithmetic
WrapUsize(x) == x % (USIZE_MAX + 1)

\* bit k of x
BitOf(x, k) == (x \div (2 ^ k)) % 2

\* x & !m on AllocBits bits
RECURSIVE AndNotFrom(_, _, _)
AndNotFrom(x, m, k) ==
    IF k >= AllocBits THEN 0
    ELSE (2 ^ k) * BitOf(x, k) * (1 - BitOf(m, k)) + AndNotFrom(x, m, k + 1)

AndNot(x, m) == AndNotFrom(x, m, 0)

\* the Layouts allocate is called with: layout.size(), layout.align(); align
\* is a power of two and size rounded up to align is at most isize::MAX
Layouts ==
    {l \in (0 .. MaxAllocSize) \X {2 ^ k : k \in 0 .. AllocBits - 1} :
        ((l[1] + l[2] - 1) \div l[2]) * l[2] <= ISIZE_MAX}

\* the regions BumpAllocator::new is called with: [ptr, ptr + len) is valid
\* memory, so ptr is not null, len is at most isize::MAX and the region
\* does not wrap around the address space; the model takes the regions at
\* the bottom and at the top of the address space
BumpRegions ==
    {r \in (1 .. USIZE_MAX) \X (0 .. ISIZE_MAX) :
        /\ r[1] + r[2] <= USIZE_MAX
        /\ r[1] = 1 \/ r[1] + r[2] = USIZE_MAX}

NoLocal == [size |-> 0, align |-> 1, current_offset |-> 0, aligned_ptr |-> 0,
            new_offset |-> 0]

\* BumpAllocator::new(ptr, len)
BumpNew(ptr, len) ==
    /\ bump_start = ptr
    /\ bump_len = len
    /\ bump_offset = 0
    /\ apc = [t \in AllocThreadIds |-> "idle"]
    /\ alocal = [t \in AllocThreadIds |-> NoLocal]
    /\ regions = <<>>
    /\ failed = <<>>
    /\ freed = {}

\* an allocator over an arbitrary valid region
BumpInit == \E r \in BumpRegions : BumpNew(r[1], r[2])

\* the locals of one iteration of allocate's loop, from the offset it loaded;
\* overflow tells whether one of the additions or the subtraction left the
\* usize range (a panic with overflow checks, a wrap without them)
AllocCompute(current_offset, size, align) ==
    LET current_ptr == bump_start + current_offset
        aligned_ptr == AndNot(WrapUsize(current_ptr + align - 1), align - 1)
        padding == WrapUsize(aligned_ptr - current_ptr)
    IN  [aligned_ptr |-> aligned_ptr,
         new_offset |-> WrapUsize(current_offset + padding + size),
         overflow |-> \/ current_ptr > USIZE_MAX
                      \/ current_ptr + align - 1 > USIZE_MAX
                      \/ aligned_ptr < current_ptr
                      \/ current_offset + padding + size > USIZE_MAX]

\* `if new_offset > self.len`
OutOfRegion_Inclusive(new_offset) == new_offset >= bump_len

OutOfRegion(new_offset) == new_offset > bump_len

AllocCallsMade ==
    Len(regions) + Len(failed) + Cardinality({t \in AllocThreadIds : apc[t] # "idle"})

\* a thread enters allocate(layout)
AllocCall(t, l) ==
    /\ apc[t] = "idle"
    /\ AllocCallsMade < MaxAllocCalls
    /\ apc' = [apc EXCEPT ![t] = "load"]
    /\ alocal' = [alocal EXCEPT ![t] = [NoLocal EXCEPT !.size = l[1], !.align = l[2]]]
    /\ UNCHANGED <<bump_start, bump_len, bump_offset, regions, failed, freed>>
    /\ UNCHANGED allocFrame

\* top of the loop: offset.load, the arithmetic and a bounds check that passes
AllocLoad(t) ==
    /\ apc[t] \in {"load", "retry"}
    /\ LET c == AllocCompute(bump_offset, alocal[t].size, alocal[t].align)
       IN  /\ ~OutOfRegion(c.new_offset)
           /\ alocal' = [alocal EXCEPT ![t].current_offset = bump_offset,
                                       ![t].aligned_ptr = c.aligned_ptr,
                                       ![t].new_offset = c.new_offset]
    /\ apc' = [apc EXCEPT ![t] = "cas"]
    /\ UNCHANGED <<bump_start, bump_len, bump_offset, regions, failed, freed>>
    /\ UNCHANGED allocFrame

\* top of the loop: offset.load, the arithmetic and `return Err(AllocError)`
AllocErr(t) ==
    /\ apc[t] \in {"load", "retry"}
    /\ OutOfRegion(AllocCompute(bump_offset, alocal[t].size, alocal[t].align).new_offset)
    /\ failed' = Append(failed, <<bump_offset, alocal[t].size, alocal[t].align>>)
    /\ apc' = [apc EXCEPT ![t] = "idle"]
    /\ alocal' = [alocal EXCEPT ![t] = NoLocal]
    /\ UNCHANGED <<bump_start, bump_len, bump_offset, regions, freed>>
    /\ UNCHANGED allocFrame

\* top of the loop in a build with overflow checks: the arithmetic panics
AllocPanic(t) ==
    /\ apc[t] \in {"load", "retry"}
    /\ AllocCompute(bump_offset, alocal[t].size, alocal[t].align).overflow
    /\ apc' = [apc EXCEPT ![t] = "panicked"]
    /\ alocal' = [alocal EXCEPT ![t] = NoLocal]
    /\ UNCHANGED <<bump_start, bump_len, bump_offset, regions, failed, freed>>
    /\ UNCHANGED allocFrame

\* a compare_exchange that stores whatever the offset has become
AllocCasOk_NoCompare(t) ==
    /\ apc[t] = "cas"
    /\ bump_offset' = alocal[t].new_offset
    /\ regions' = Append(regions, <<alocal[t].aligned_ptr, alocal[t].size, alocal[t].align>>)
    /\ apc' = [apc EXCEPT ![t] = "idle"]
    /\ alocal' = [alocal EXCEPT ![t] = NoLocal]
    /\ UNCHANGED <<bump_start, bump_len, failed, freed>>
    /\ UNCHANGED allocFrame

\* offset.compare_exchange(current_offset, new_offset) succeeds and allocate
\* returns the slice at aligned_ptr
AllocCasOk(t) ==
    /\ apc[t] = "cas"
    /\ bump_offset = alocal[t].current_offset
    /\ bump_offset' = alocal[t].new_offset
    /\ regions' = Append(regions, <<alocal[t].aligned_ptr, alocal[t].size, alocal[t].align>>)
    /\ apc' = [apc EXCEPT ![t] = "idle"]
    /\ alocal' = [alocal EXCEPT ![t] = NoLocal]
    /\ UNCHANGED <<bump_start, bump_len, failed, freed>>
    /\ UNCHANGED allocFrame

\* the compare_exchange fails: another thread moved the offset; loop again
AllocCasFail(t) ==
    /\ apc[t] = "cas"
    /\ bump_offset # alocal[t].current_offset
    /\ apc' = [apc EXCEPT ![t] = "retry"]
    /\ alocal' = [alocal EXCEPT ![t] = [NoLocal EXCEPT !.size = alocal[t].size,
                                                       !.align = alocal[t].align]]
    /\ UNCHANGED <<bump_start, bump_len, bump_offset, regions, failed, freed>>
    /\ UNCHANGED allocFrame

\* deallocate(ptr, layout) of a region allocate returned: an empty body
Deallocate(t, i) ==
    /\ apc[t] = "idle"
    /\ i \in 1 .. Len(regions)
    /\ i \notin freed
    /\ freed' = freed \cup {i}
    /\ UNCHANGED <<bump_start, bump_len, bump_offset, apc, alocal, regions, failed>>
    /\ UNCHANGED allocFrame

AllocNext ==
    \E t \in AllocThreadIds :
        \/ \E l \in Layouts : AllocCall(t, l)
        \/ AllocLoad(t)
        \/ AllocErr(t)
        \/ AllocPanic(t)
        \/ AllocCasOk(t)
        \/ AllocCasFail(t)
        \/ \E i \in 1 .. MaxAllocCalls : Deallocate(t, i)

(***************************************************************************)
(* StaticVec (qcu_core/src/static_vec.rs)                                  *)
(***************************************************************************)
SvItemSet == 1 .. SvItems

\* the slice the vector derefs to: data[0 .. len)
SvElems(data, len) == [k \in 1 .. len |-> data[k - 1]]

\* StaticVec::new
SvNew ==
    /\ sv_data = [k \in 0 .. SvN - 1 |-> Uninit]
    /\ sv_len = 0
    /\ sv_ret = [op |-> "new", kind |-> "none", item |-> Uninit]
    /\ sv_prev = <<>>

\* `if self.len < N` with the comparison off by one
SvHasRoom_Inclusive(len) == len <= SvN - 2

\* `if self.len < N`
SvHasRoom(len) == len < SvN

\* StaticVec::push(item)
SvPush(item) ==
    /\ IF SvHasRoom(sv_len)
       THEN /\ sv_data' = [sv_data EXCEPT ![sv_len] = item]
            /\ sv_len' = sv_len + 1
            /\ sv_ret' = [op |-> "push", kind |-> "Ok", item |-> item]
       ELSE /\ sv_ret' = [op |-> "push", kind |-> "Err", item |-> item]
            /\ UNCHANGED <<sv_data, sv_len>>
    /\ sv_prev' = SvElems(sv_data, sv_len)
    /\ UNCHANGED svFrame

\* StaticVec::pop
SvPop ==
    /\ IF sv_len > 0
       THEN /\ sv_len' = sv_len - 1
            /\ sv_ret' = [op |-> "pop", kind |-> "Some", item |-> sv_data[sv_len - 1]]
       ELSE /\ sv_ret' = [op |-> "pop", kind |-> "None", item |-> Uninit]
            /\ UNCHANGED sv_len
    /\ sv_prev' = SvElems(sv_data, sv_len)
    /\ UNCHANGED <<sv_data, svFrame>>

\* StaticVec::clear
SvClear ==
    /\ sv_len' = 0
    /\ sv_ret' = [op |-> "clear", kind |-> "none", item |-> Uninit]
    /\ sv_prev' = SvElems(sv_data, sv_len)
    /\ UNCHANGED <<sv_data, svFrame>>

StaticVecNext ==
    \/ \E item \in SvItemSet : SvPush(item)
    \/ SvPop
    \/ SvClear

(***************************************************************************)
(* BitPack on integer words (qcu_core/src/bit_utils.rs)                    *)
(***************************************************************************)
PackIndices == 0 .. PackBits * PackWords - 1
WordValues == 0 .. 2 ^ PackBits - 1

\* 1 << bit on a word
Shl1(bit) == (2 ^ bit) % (2 ^ PackBits)

\* x ^ y, x | y and x & !y on words, bit by bit from bit k upwards
RECURSIVE WordOpFrom(_, _, _, _)
WordOpFrom(op, x, y, k) ==
    IF k >= PackBits THEN 0
    ELSE LET a == (x \div (2 ^ k)) % 2
             b == (y \div (2 ^ k)) % 2
             r == CASE op = "xor" -> (a + b) % 2
                    [] op = "or" -> IF a + b > 0 THEN 1 ELSE 0
                    [] op = "andnot" -> a * (1 - b)
         IN  (2 ^ k) * r + WordOpFrom(op, x, y, k + 1)

WordXor(x, y) == WordOpFrom("xor", x, y, 0)
WordOr(x, y) == WordOpFrom("or", x, y, 0)
WordAndNot(x, y) == WordOpFrom("andnot", x, y, 0)

\* BitPack::get: (word >> bit) & 1 == 1
PackGet(storage, index) ==
    LET word == storage[index \div PackBits + 1]
        bit == index % PackBits
    IN  (word \div (2 ^ bit)) % 2 = 1

\* BitPack::toggle: storage[word_idx] ^= 1 << bit_idx
PackToggle(storage, index) ==
    LET word_idx == index \div PackBits
        bit_idx == index % PackBits
    IN  [storage EXCEPT ![word_idx + 1] = WordXor(@, Shl1(bit_idx))]

\* a set that writes the bit computed from the index instead of index % 64
PackSet_WholeIndex(storage, index, val) ==
    LET word_idx == index \div PackBits
        bit_idx == index
    IN  IF val
        THEN [storage EXCEPT ![word_idx + 1] = WordOr(@, Shl1(bit_idx))]
        ELSE [storage EXCEPT ![word_idx + 1] = WordAndNot(@, Shl1(bit_idx))]

\* BitPack::set: |= 1 << bit_idx for true, &= !(1 << bit_idx) for false
PackSet(storage, index, val) ==
    LET word_idx == index \div PackBits
        bit_idx == index % PackBits
    IN  IF val
        THEN [storage EXCEPT ![word_idx + 1] = WordOr(@, Shl1(bit_idx))]
        ELSE [storage EXCEPT ![word_idx + 1] = WordAndNot(@, Shl1(bit_idx))]

\* a storage slice with arbitrary contents, nothing written yet
PackInit ==
    /\ bp_storage \in [1 .. PackWords -> WordValues]
    /\ bp_prev = bp_storage
    /\ bp_call = [op |-> "none", index |-> 0]
    /\ bp_bits = [i \in PackIndices |-> Uninit]

\* the storage of the other specifications: zeroed words
PackZero ==
    /\ bp_storage = [w \in 1 .. PackWords |-> 0]
    /\ bp_prev = bp_storage
    /\ bp_call = [op |-> "none", index |-> 0]
    /\ bp_bits = [i \in PackIndices |-> Uninit]

\* a call of BitPack::set(storage, index, val)
PackSetCall(index, val) ==
    /\ bp_storage' = PackSet(bp_storage, index, val)
    /\ bp_prev' = bp_storage
    /\ bp_call' = [op |-> "set", index |-> index]
    /\ bp_bits' = [bp_bits EXCEPT ![index] = IF val THEN 1 ELSE 0]
    /\ UNCHANGED packFrame

\* a call of BitPack::toggle(storage, index)
PackToggleCall(index) ==
    /\ bp_storage' = PackToggle(bp_storage, index)
    /\ bp_prev' = bp_storage
    /\ bp_call' = [op |-> "toggle", index |-> index]
    /\ bp_bits' = [bp_bits EXCEPT ![index] = IF @ = Uninit THEN Uninit ELSE 1 - @]
    /\ UNCHANGED packFrame

BitPackNext ==
    \E index \in PackIndices :
        \/ \E val \in BOOLEAN : PackSetCall(index, val)
        \/ PackToggleCall(index)

(***************************************************************************)
(* DecodingGraph::build_adjacency and neighbors (qcu_core/src/graph.rs)    *)
(***************************************************************************)
\* vec![0; n]: a vector indexed from 0
ZeroVec(n) == [i \in 0 .. n - 1 |-> 0]

VecLen(vec) == Cardinality(DOMAIN vec)

\* Vec::new() for adj_offsets and adj_targets in new_in
AdjNew ==
    /\ adj_offsets = ZeroVec(0)
    /\ adj_targets = ZeroVec(0)

\* the first loop over fast_edges: degree[u] += 1; degree[v] += 1
RECURSIVE AdjDegreeFrom(_, _, _)
AdjDegreeFrom(edges, k, degree) ==
    IF k > Len(edges) THEN degree
    ELSE LET u == edges[k][1]
             v == edges[k][2]
             d1 == [degree EXCEPT ![u] = @ + 1]
         IN  AdjDegreeFrom(edges, k + 1, [d1 EXCEPT ![v] = @ + 1])

\* for i in 0..n: offsets[i + 1] = offsets[i] + degree[i]
RECURSIVE AdjOffsetsFrom(_, _, _, _)
AdjOffsetsFrom(degree, n, i, offsets) ==
    IF i >= n THEN offsets
    ELSE AdjOffsetsFrom(degree, n, i + 1,
                        [offsets EXCEPT ![i + 1] = offsets[i] + degree[i]])

\* a second loop that records each edge at its first endpoint only
RECURSIVE AdjTargetsFrom_OneWay(_, _, _, _)
AdjTargetsFrom_OneWay(edges, k, pos, targets) ==
    IF k > Len(edges) THEN targets
    ELSE LET u == edges[k][1]
             v == edges[k][2]
             t1 == [targets EXCEPT ![pos[u]] = v]
             p1 == [pos EXCEPT ![u] = @ + 1]
         IN  AdjTargetsFrom_OneWay(edges, k + 1, [p1 EXCEPT ![v] = @ + 1], t1)

\* the second loop over fast_edges: targets[pos[u]] = v; pos[u] += 1;
\* targets[pos[v]] = u; pos[v] += 1
RECURSIVE AdjTargetsFrom(_, _, _, _)
AdjTargetsFrom(edges, k, pos, targets) ==
    IF k > Len(edges) THEN targets
    ELSE LET u == edges[k][1]
             v == edges[k][2]
             t1 == [targets EXCEPT ![pos[u]] = v]
             p1 == [pos EXCEPT ![u] = @ + 1]
             t2 == [t1 EXCEPT ![p1[v]] = u]
             p2 == [p1 EXCEPT ![v] = @ + 1]
         IN  AdjTargetsFrom(edges, k + 1, p2, t2)

\* DecodingGraph::build_adjacency: the new adj_offsets and adj_targets
BuildAdjacency(g) ==
    LET n == g.max_node_id
        degree == AdjDegreeFrom(g.fast_edges, 1, ZeroVec(n))
        offsets == AdjOffsetsFrom(degree, n, 0, ZeroVec(n + 1))
        total == offsets[n]
        pos == [i \in 0 .. n - 1 |-> offsets[i]]
    IN  [offsets |-> offsets,
         targets |-> AdjTargetsFrom(g.fast_edges, 1, pos, ZeroVec(total))]

\* DecodingGraph::neighbors(i): the slice adj_targets[start..end]
Neighbors(offsets, targets, i) ==
    IF VecLen(offsets) <= i + 1 THEN <<>>
    ELSE LET start == offsets[i]
             end == offsets[i + 1]
         IN  [k \in 1 .. end - start |-> targets[start + k - 1]]

\* graph.add_edge(u, v, w) on a graph whose adjacency may have been built
AdjAddEdge ==
    /\ Len(graph.fast_edges) < MaxAdjEdges
    /\ \E u \in NodeIds, v \in NodeIds : GraphGrow(u, v)

\* graph.build_adjacency()
AdjBuild ==
    /\ adj_offsets' = BuildAdjacency(graph).offsets
    /\ adj_targets' = BuildAdjacency(graph).targets
    /\ UNCHANGED adjFrame

AdjacencyNext ==
    \/ AdjAddEdge
    \/ AdjBuild

(***************************************************************************)
(* RingBuffer (qcu_core/src/ring_buffer.rs): one producer, one consumer    *)
(***************************************************************************)
RingCap == 2 ^ LogRingCap
RingWrap == 2 ^ RingBits

\* head & self.mask with mask = capacity - 1, capacity a power of two
RingSlot(x) == x % RingCap

RingNoPush == [head |-> 0, tail |-> 0, item |-> 0]
RingNoPop == [tail |-> 0, head |-> 0, item |-> 0]

\* RingBuffer::new(capacity): the slots hold T::default() (0)
RingNew ==
    /\ rb_buffer = [k \in 0 .. RingCap - 1 |-> 0]
    /\ rb_head = 0
    /\ rb_tail = 0
    /\ rb_ppc = "idle"
    /\ rb_push = RingNoPush
    /\ rb_cpc = "idle"
    /\ rb_pop = RingNoPop
    /\ rb_pushed = <<>>
    /\ rb_popped = <<>>
    /\ rb_calls = 0

\* push(item): let head = self.head.load(Relaxed)
RingPushLoadHead ==
    /\ rb_ppc = "idle"
    /\ rb_calls < MaxRingPush
    /\ rb_calls' = rb_calls + 1
    /\ rb_push' = [head |-> rb_head, tail |-> 0, item |-> rb_calls + 1]
    /\ rb_ppc' = "tail"
    /\ UNCHANGED <<rb_buffer, rb_head, rb_tail, rb_cpc, rb_pop, rb_pushed, rb_popped>>
    /\ UNCHANGED ringFrame

\* let tail = self.tail.load(Acquire)
RingPushLoadTail ==
    /\ rb_ppc = "tail"
    /\ rb_push' = [rb_push EXCEPT !.tail = rb_tail]
    /\ rb_ppc' = "check"
    /\ UNCHANGED <<rb_buffer, rb_head, rb_tail, rb_cpc, rb_pop, rb_pushed, rb_popped, rb_calls>>
    /\ UNCHANGED ringFrame

\* a full test that lets one item more in
RingIsFull_OneMore(h, t) == (h - t) % RingWrap > RingCap

\* head.wrapping_sub(tail) >= self.capacity
RingIsFull(h, t) == (h - t) % RingWrap >= RingCap

\* the buffer is full: return false
RingPushFull ==
    /\ rb_ppc = "check"
    /\ RingIsFull(rb_push.head, rb_push.tail)
    /\ rb_push' = RingNoPush
    /\ rb_ppc' = "idle"
    /\ UNCHANGED <<rb_buffer, rb_head, rb_tail, rb_cpc, rb_pop, rb_pushed, rb_popped, rb_calls>>
    /\ UNCHANGED ringFrame

\* ptr.add(head & self.mask).write(item)
RingPushWrite ==
    /\ rb_ppc = "check"
    /\ ~RingIsFull(rb_push.head, rb_push.tail)
    /\ rb_buffer' = [rb_buffer EXCEPT ![RingSlot(rb_push.head)] = rb_push.item]
    /\ rb_ppc' = "store"
    /\ UNCHANGED <<rb_head, rb_tail, rb_push, rb_cpc, rb_pop, rb_pushed, rb_popped, rb_calls>>
    /\ UNCHANGED ringFrame

\* self.head.store(head.wrapping_add(1), Release); true
RingPushStoreHead ==
    /\ rb_ppc = "store"
    /\ rb_head' = (rb_push.head + 1) % RingWrap
    /\ rb_pushed' = Append(rb_pushed, rb_push.item)
    /\ rb_push' = RingNoPush
    /\ rb_ppc' = "idle"
    /\ UNCHANGED <<rb_buffer, rb_tail, rb_cpc, rb_pop, rb_popped, rb_calls>>
    /\ UNCHANGED ringFrame

\* pop(): let tail = self.tail.load(Relaxed), while a pop can still return
\* an item or one more None
RingPopLoadTail ==
    /\ rb_cpc = "idle"
    /\ Len(rb_popped) < MaxRingPush
    /\ rb_pop' = [tail |-> rb_tail, head |-> 0, item |-> 0]
    /\ rb_cpc' = "head"
    /\ UNCHANGED <<rb_buffer, rb_head, rb_tail, rb_ppc, rb_push, rb_pushed, rb_popped, rb_calls>>
    /\ UNCHANGED ringFrame

\* let head = self.head.load(Acquire)
RingPopLoadHead ==
    /\ rb_cpc = "head"
    /\ rb_pop' = [rb_pop EXCEPT !.head = rb_head]
    /\ rb_cpc' = "check"
    /\ UNCHANGED <<rb_buffer, rb_head, rb_tail, rb_ppc, rb_push, rb_pushed, rb_popped, rb_calls>>
    /\ UNCHANGED ringFrame

\* tail == head: return None
RingPopEmpty ==
    /\ rb_cpc = "check"
    /\ rb_pop.tail = rb_pop.head
    /\ rb_pop' = RingNoPop
    /\ rb_cpc' = "idle"
    /\ UNCHANGED <<rb_buffer, rb_head, rb_tail, rb_ppc, rb_push, rb_pushed, rb_popped, rb_calls>>
    /\ UNCHANGED ringFrame

\* ptr.add(tail & self.mask).read()
RingPopRead ==
    /\ rb_cpc = "check"
    /\ rb_pop.tail # rb_pop.head
    /\ rb_pop' = [rb_pop EXCEPT !.item = rb_buffer[RingSlot(rb_pop.tail)]]
    /\ rb_cpc' = "store"
    /\ UNCHANGED <<rb_buffer, rb_head, rb_tail, rb_ppc, rb_push, rb_pushed, rb_popped, rb_calls>>
    /\ UNCHANGED ringFrame

\* self.tail.store(tail.wrapping_add(1), Release); Some(item)
RingPopStoreTail ==
    /\ rb_cpc = "store"
    /\ rb_tail' = (rb_pop.tail + 1) % RingWrap
    /\ rb_popped' = Append(rb_popped, rb_pop.item)
    /\ rb_pop' = RingNoPop
    /\ rb_cpc' = "idle"
    /\ UNCHANGED <<rb_buffer, rb_head, rb_ppc, rb_push, rb_pushed, rb_calls>>
    /\ UNCHANGED ringFrame

RingNext ==
    \/ RingPushLoadHead
    \/ RingPushLoadTail
    \/ RingPushFull
    \/ RingPushWrite
    \/ RingPushStoreHead
    \/ RingPopLoadTail
    \/ RingPopLoadHead
    \/ RingPopEmpty
    \/ RingPopRead
    \/ RingPopStoreTail

(***************************************************************************)
(* Specifications                                                          *)
(***************************************************************************)
\* the library types in their state after construction
LibInit == BumpNew(1, 0) /\ SvNew /\ PackZero /\ AdjNew /\ ExpandIdle /\ RingNew

\* the state after construction with an allocator over an arbitrary region
InitAlloc ==
    /\ QueueInit /\ DecoderInit /\ DsuInit /\ PrimaryInit /\ FirmwareInit
    /\ BumpInit /\ SvNew /\ PackZero /\ AdjNew /\ ExpandIdle /\ RingNew

\* the state after construction with a storage slice of arbitrary contents
InitPack ==
    /\ QueueInit /\ DecoderInit /\ DsuInit /\ PrimaryInit /\ FirmwareInit
    /\ BumpNew(1, 0) /\ SvNew /\ PackInit /\ AdjNew /\ ExpandIdle /\ RingNew

\* the state when a worker has popped a packet of arbitrary syndrome words
InitExpand ==
    /\ QueueInit /\ DecoderInit /\ DsuInit /\ PrimaryInit /\ FirmwareInit
    /\ BumpNew(1, 0) /\ SvNew /\ PackZero /\ AdjNew /\ ExpandInit /\ RingNew

\* the state after construction of the queue, the graph and the decoder
Init == QueueInit /\ DecoderInit /\ DsuInit /\ PrimaryInit /\ FirmwareInit /\ LibInit

\* the same with the chain graph loaded
InitChain == QueueInit /\ ChainInit /\ DsuInit /\ PrimaryInit /\ FirmwareInit /\ LibInit

\* the same with one of the scenario graphs loaded
InitScenario == QueueInit /\ ScenarioInit /\ DsuInit /\ PrimaryInit /\ FirmwareInit /\ LibInit

\* the same with a UnionFind of DeepN nodes
InitDeep == QueueInit /\ DecoderInit /\ DeepInit /\ PrimaryInit /\ FirmwareInit /\ LibInit

SpecQueue == Init /\ [][QueueNext]_vars

SpecDecoder == Init /\ [][DecoderNext]_vars

\* a call of solve_into that has begun keeps executing: weak fairness of
\* each of its three steps. WF_vars(SweepEdge) is written out with the
\* enabling condition of SweepEdge, which is its guard (the sweep is under
\* way and an edge is left in the pass): the step exists for every value the
\* reads of touched yield and always advances solve.edge_i
SweepEnabled == solve.pc = "sweep" /\ solve.edge_i <= Len(graph.fast_edges)

SolveFair ==
    /\ <>[]SweepEnabled => []<><<SweepEdge>>_vars
    /\ WF_vars(PassRepeat)
    /\ WF_vars(SolveReturn)

SpecDecoderFair == SpecDecoder /\ SolveFair

SpecReuse == Init /\ [][ReuseNext]_vars

SpecChain == InitChain /\ [][ChainNext]_vars

SpecScenario == InitScenario /\ [][ChainNext]_vars

SpecDsu == Init /\ [][DsuNext]_vars

SpecDeep == InitDeep /\ [][DeepNext]_vars
SpecSystem == Init /\ [][SystemNext]_vars
SpecFirmware == Init /\ [][FirmwareNext]_vars
SpecAlloc == InitAlloc /\ [][AllocNext]_vars
SpecStaticVec == Init /\ [][StaticVecNext]_vars
SpecBitPack == InitPack /\ [][BitPackNext]_vars
SpecAdjacency == Init /\ [][AdjacencyNext]_vars
SpecRing == Init /\ [][RingNext]_vars

\* one step of worker c inside JOB_QUEUE.pop(), or its next call of pop
\* (worker_main calls pop again in every iteration of its loop)
WorkerStep(c) ==
    /\ \/ PopLoadTail(c)
       \/ PopLoadHead(c)
       \/ PopCasOk(c)
       \/ PopCasFail(c)
       \/ PopRead(c)
    /\ ObserveCalls

\* every worker keeps executing its loop (weak fairness of its steps), and
\* compare_exchange_weak does not fail spuriously for ever: a worker that
\* again and again reaches the compare-exchange with the current tail as
\* its expected value succeeds in the end (strong fairness of the success)
WorkersFair ==
    \A c \in Consumers :
        /\ WF_vars(WorkerStep(c))
        /\ SF_vars(PopCasOk(c) /\ ObserveCalls)

SpecQueueFair == SpecQueue /\ WorkersFair

\* the worker keeps executing its loop: weak fairness of its steps
SpecExpand == InitExpand /\ [][ExpandNext]_vars /\ WF_vars(ExpandNext)
(***************************************************************************)
(* Properties of the queue                                                 *)
(***************************************************************************)
PushedItems == 0 .. MaxPush - 1

\* C1: the multiset of values returned by successful pops is a prefix of
\* the pushed sequence and no pushed element is returned twice: no value is
\* returned more than once, every returned value is the item of a claimed
\* ticket, and once no consumer is between its claim and its return the
\* returned values are exactly the items of tickets 0 .. tail - 1.
C1_PoppedIsPrefixNoDuplicate ==
    /\ popped[Uninit] = 0
    /\ \A v \in PushedItems : popped[v] <= 1
    /\ \A v \in PushedItems :
          popped[v] > 0 =>
            \E k \in 1 .. tail : k <= Len(pushedSeq) /\ pushedSeq[k] = v
    /\ (\A c \in Consumers : cpc[c] # "read") =>
          \A k \in 1 .. tail :
            k <= Len(pushedSeq) /\ popped[pushedSeq[k]] = 1

\* C2: after a consumer's compare-exchange of tail from t to t + 1 the
\* producer does not write slot t mod N before the consumer has read it, so
\* the pop returns the item pushed with ticket t and every pushed item is
\* returned by at most one pop.
C2_CasGivesExclusiveSlot ==
    /\ \A c \in Consumers :
          cpc[c] = "read" =>
            buffer[SlotIndex(pop_tail[c])] = pushedSeq[pop_tail[c] + 1]
    /\ \A c \in Consumers :
          pop_res[c].kind = "Some" =>
            pop_res[c].item = pushedSeq[pop_res[c].ticket + 1]
    /\ \A k \in 1 .. Len(pushedSeq) : popped[pushedSeq[k]] <= 1

\* C3: in every reachable state 0 <= head - tail <= N, and head and tail
\* only ever increase.
C3_HeadTailWindow ==
    /\ [](0 <= head - tail /\ head - tail <= QN)
    /\ [][head' >= head /\ tail' >= tail]_vars

\* C3 witness: the queue is full after the ring has wrapped.
C3_Witness == head - tail = QN /\ tail >= 1 /\ ppc = "idle"

\* C4: for every ticket k with tail <= k < head, slot k mod N holds the item
\* pushed with ticket k; the producer still has head at the ticket it is
\* writing when the slot write is done (head advances only afterwards).
C4_WindowSlotsHoldTheirItems ==
    /\ \A k \in tail .. head - 1 :
          /\ buffer[SlotIndex(k)] # Uninit
          /\ buffer[SlotIndex(k)] = pushedSeq[k + 1]
    /\ ppc = "store" =>
          head = push_head /\ buffer[SlotIndex(push_head)] = push_item

\* C4 witness: a consumer sees head > tail for a ticket whose slot is being
\* used for the second time.
C4_Witness ==
    \E c \in Consumers :
      cpc[c] = "cas" /\ pop_tail[c] = tail /\ tail >= QN /\ head > tail

\* C5: push returns Err(item) exactly when head - tail >= N at its loads,
\* and then head and every slot are as they were at the call; otherwise the
\* item is written to slot head mod N and head has advanced by exactly 1;
\* no step of push changes tail.
C5_PushOutcome ==
    /\ [](ppc = "idle" /\ push_res.kind # "none" =>
            /\ push_res.kind = "Err" <=> push_head - push_tail >= QN
            /\ push_res.kind = "Err" =>
                  /\ push_res.item = push_item
                  /\ head = push_head
                  /\ buffer = push_buf0
            /\ push_res.kind = "Ok" =>
                  /\ head = push_head + 1
                  /\ buffer = [push_buf0 EXCEPT ![push_head % QN] = push_item]
                  /\ pushedSeq[head] = push_item)
    /\ [][ppc' # ppc => tail' = tail]_vars

\* C5 witness: a push rejected on a full queue after earlier pushes succeeded.
C5_Witness ==
    /\ ppc = "idle"
    /\ push_res.kind = "Err"
    /\ Len(pushedSeq) = QN
    /\ push_head - push_tail >= QN

\* C6: a pop that returned None saw tail = head at some instant of the call
\* (so it never returns None while an unclaimed item is in the queue for the
\* whole call) and changed neither head, tail nor any slot.
C6_PopNoneOnlyWhenEmpty ==
    \A c \in Consumers :
      pop_res[c].kind = "None" => sawEmpty[c] /\ ~popChanged[c]

\* C6 witness: a pop returns None after a failed compare-exchange, the other
\* consumer having taken the last item.
C6_Witness ==
    \E c \in Consumers :
      /\ pop_res[c].kind = "None"
      /\ cpc[c] = "idle"
      /\ pop_tail[c] > 0
      /\ pop_tail[c] = pop_head[c]
      /\ \E d \in Consumers \ {c} :
            pop_res[d].kind = "Some" /\ pop_res[d].ticket = pop_tail[c] - 1
(***************************************************************************)
(* Properties of the decoder                                               *)
(***************************************************************************)
Returned == solve.pc = "idle" /\ solve.res # "none"

NumRoots(parent) == Cardinality({i \in 0 .. Len(parent) - 1 : At(parent, i) = i})

\* C7 as stated: for every graph and every syndrome list a call of
\* solve_into ends by returning, with Ok whenever the sink's capacity is at
\* least n = min(num_nodes, N).
C7_EveryGraphReturnsOk ==
    (solve.pc # "sweep" /\ solve.res # "none" /\ out_cap >= solve.num_nodes)
      => solve.res = "Ok"

\* C7 amended: for every graph with num_nodes() <= N and every syndrome
\* list, a call of solve_into returns (it never panics and the sweep loop
\* ends), and it returns Ok whenever the sink's capacity is at least n.
C7_ValidGraphReturnsOk ==
    /\ [](NumNodes(graph) <= dec_N /\ solve.res # "none" =>
            /\ solve.res \in {"Ok", "BufferOverflow"}
            /\ out_cap >= solve.num_nodes => solve.res = "Ok")
    /\ (solve.pc = "sweep" /\ NumNodes(graph) <= dec_N) ~> Returned

\* C7 witness: a call returns Ok with a sink of capacity exactly n = N that
\* received n - 1 corrections.
C7_Witness ==
    /\ Returned
    /\ solve.res = "Ok"
    /\ NumNodes(graph) = dec_N
    /\ out_cap = solve.num_nodes
    /\ Len(out_buffer) = solve.num_nodes - 1

\* C8: in one call the number of distinct roots is n minus the number of
\* successful unions (each union removes exactly one root), so there are at
\* most n - 1 unions (none when n = 0) and at most as many corrections; every
\* pass but the last made a union, so at most n passes precede the pass with
\* changed = false, and the call makes at most n passes in all when n >= 1.
C8_UnionsAndPasses ==
    (solve.pc = "sweep" \/ solve.res # "none") =>
      LET n == solve.num_nodes
      IN  /\ Len(decoder.parent) = n
          /\ NumRoots(decoder.parent) = n - solve.unions
          /\ n >= 1 => solve.unions <= n - 1
          /\ n = 0 => solve.unions = 0
          /\ Len(out_buffer) <= solve.unions
          /\ solve.passes - 1 <= solve.unions
          /\ solve.passes - 1 <= n
          /\ n >= 1 => solve.passes <= n

\* C8 witness: a call with n = N nodes that made n - 1 unions in n passes.
C8_Witness ==
    /\ Returned
    /\ solve.res = "Ok"
    /\ solve.num_nodes = dec_N
    /\ solve.unions = solve.num_nodes - 1
    /\ solve.passes = solve.num_nodes

\* C9 as stated: for every graph and syndrome list, whatever calls the
\* decoder has run before, a call starts its sweep from the buffers a new
\* decoder would have and ends with the outcome and the correction sequence
\* of a new decoder.
C9_AnyGraphAsFresh ==
    /\ [][(solve.pc = "idle" /\ solve'.pc = "sweep") =>
            decoder' = SolvePrelude(DecoderNew, graph', syndrome_indices', dec_N')]_vars
    /\ [][(solve.pc = "sweep" /\ solve'.pc # "sweep") =>
            LET r == FreshRun(graph', syndrome_indices', out_cap', dec_N')
            IN  r.res = solve'.res /\ r.out = out_buffer']_vars

\* C9 amended: for a graph with num_nodes() <= N and a syndrome list,
\* whatever calls the decoder has run before, a call starts its sweep from
\* the buffers a new decoder would have (parent, rank, parity and touched
\* are fully reset), and it ends with the outcome and the correction
\* sequence a new decoder produces for the same graph, list and sink.
C9_ValidGraphAsFresh ==
    /\ [][(solve.pc = "idle" /\ solve'.pc = "sweep") =>
            decoder' = SolvePrelude(DecoderNew, graph', syndrome_indices', dec_N')]_vars
    /\ [][(solve.pc = "sweep" /\ solve'.pc # "sweep"
            /\ NumNodes(graph') <= dec_N') =>
            LET r == FreshRun(graph', syndrome_indices', out_cap', dec_N')
            IN  /\ solve'.pc = "idle"
                /\ r.res = solve'.res
                /\ r.out = out_buffer']_vars

\* C9 witness: a call on a graph with num_nodes() <= N that began on buffers
\* with odd parity bits left by an earlier call has returned corrections.
C9_Witness ==
    /\ Returned
    /\ solve.reused
    /\ NumNodes(graph) <= dec_N
    /\ solve.res = "Ok"
    /\ Len(out_buffer) >= 2

\* C10 as stated: on the chain graph with syndromes [0,2,3] the corrections
\* are exactly [(0,1),(1,2)].
C10_ChainTwoCorrections ==
    (Returned /\ solve.res = "Ok" /\ syndrome_indices = <<0, 2, 3>>) =>
      out_buffer = <<<<0, 1>>, <<1, 2>>>>

\* C10 amended: on the chain graph with syndromes [0,2,3] and a sink of
\* capacity at least 3, solve_into returns Ok with exactly the corrections
\* [(0,1),(1,2),(2,3)]: after (1,2) the cluster {0,1,2} is even, but node 3
\* is still odd, so edge (2,3) is merged and emitted in the same pass.
C10_ChainThreeCorrections ==
    (Returned /\ syndrome_indices = <<0, 2, 3>> /\ out_cap >= 3) =>
      /\ solve.res = "Ok"
      /\ out_buffer = <<<<0, 1>>, <<1, 2>>, <<2, 3>>>>
      /\ solve.passes = 2
      /\ BitGet(decoder.parity, Find(decoder, 0).root)

\* C10 witness: the call on syndromes [0,2,3] has returned.
C10_Witness ==
    /\ Returned
    /\ graph.fast_edges = ChainEdges
    /\ syndrome_indices = <<0, 2, 3>>
    /\ out_cap = 3
    /\ Len(out_buffer) = 3

\* the nodes joined to a or b by an edge of g when a or b is in S
Neighbours(g, S) ==
    {x \in 0 .. NumNodes(g) :
        \E k \in 1 .. Len(g.fast_edges) :
            \/ g.fast_edges[k][1] \in S /\ g.fast_edges[k][2] = x
            \/ g.fast_edges[k][2] \in S /\ g.fast_edges[k][1] = x}

RECURSIVE Closure(_, _)
Closure(g, S) ==
    IF Neighbours(g, S) \subseteq S THEN S ELSE Closure(g, S \cup Neighbours(g, S))

\* the connected component of node x in g
ComponentOf(g, x) == Closure(g, {x})

\* every syndrome is a node of the graph and no other entry of the list lies
\* in its connected component
LoneSyndromes ==
    \A i \in 1 .. Len(syndrome_indices) :
        /\ syndrome_indices[i] < solve.num_nodes
        /\ \A j \in 1 .. Len(syndrome_indices) :
              j # i => syndrome_indices[j] \notin ComponentOf(graph, syndrome_indices[i])

\* the nodes of the components that hold a syndrome
SyndromeComponents ==
    UNION {ComponentOf(graph, syndrome_indices[i]) : i \in 1 .. Len(syndrome_indices)}

FirstEdgeOfPair(k) ==
    LET e == graph.fast_edges[k]
    IN  /\ Len(syndrome_indices) = 2
        /\ e[1] # e[2]
        /\ {syndrome_indices[1], syndrome_indices[2]} = {e[1], e[2]}
        /\ e[1] < solve.num_nodes /\ e[2] < solve.num_nodes
        /\ \A j \in 1 .. k - 1 :
              {graph.fast_edges[j][1], graph.fast_edges[j][2]} \cap {e[1], e[2]} = {}

\* C12: when exactly two syndromes sit on the endpoints u, v of an edge
\* that precedes every other edge touching u or v, solve_into (sink of
\* capacity at least 1) returns Ok with exactly [(u,v)], and the merged
\* cluster, like every other cluster, has even parity.
C12_AdjacentPairOneCorrection ==
    \A k \in 1 .. Len(graph.fast_edges) :
        (Returned /\ FirstEdgeOfPair(k) /\ out_cap >= 1) =>
          /\ solve.res = "Ok"
          /\ out_buffer = <<graph.fast_edges[k]>>
          /\ \A x \in 0 .. solve.num_nodes - 1 :
                ~BitGet(decoder.parity, Find(decoder, x).root)
          /\ Find(decoder, graph.fast_edges[k][1]).root
               = Find(decoder, graph.fast_edges[k][2]).root

\* C12 witness: the call on the chain with syndromes [0,1] has returned
\* the single correction (0,1).
C12_Witness ==
    /\ Returned
    /\ graph.fast_edges = ChainEdges
    /\ FirstEdgeOfPair(1)
    /\ syndrome_indices = <<0, 1>>
    /\ out_buffer = <<<<0, 1>>>>

\* a call with an empty syndrome list is under way or has ended
EmptyCall == (solve.pc = "sweep" \/ solve.res # "none") /\ syndrome_indices = <<>>

\* the call made no union and emitted nothing, touched is all zero, every
\* node is its own root and every parity bit is clear
NothingDone ==
    /\ solve.unions = 0
    /\ out_buffer = <<>>
    /\ solve.passes = 1
    /\ Len(decoder.touched) = solve.num_nodes
    /\ \A x \in 0 .. solve.num_nodes - 1 :
          At(decoder.touched, x) = 0 /\ At(decoder.parent, x) = x
    /\ \A k \in 1 .. Len(decoder.parity) : decoder.parity[k] = {}

\* C13 as stated: for every graph, solve_into with an empty syndrome list
\* returns Ok with no correction, no union, touched all zero and every node
\* its own root.
C13_EveryGraphEmptySyndromes ==
    EmptyCall => /\ solve.res \in {"none", "Ok"}
                 /\ NothingDone

\* C13 amended: for every graph with num_nodes() <= N, solve_into with an
\* empty syndrome list, on a new or a reused decoder, returns Ok with no
\* correction, and throughout the call no union is made, touched is all zero
\* and every node is its own root.
C13_ValidGraphEmptySyndromes ==
    (EmptyCall /\ NumNodes(graph) <= dec_N) =>
      /\ solve.res \in {"none", "Ok"}
      /\ NothingDone

\* C13 witness: a call with an empty syndrome list on a graph with edges has
\* returned on a decoder that an earlier call left with odd parity bits.
C13_Witness ==
    /\ Returned
    /\ solve.reused
    /\ syndrome_indices = <<>>
    /\ NumNodes(graph) <= dec_N
    /\ Len(graph.fast_edges) >= 1
    /\ solve.num_nodes >= 2
    /\ solve.res = "Ok"

(***************************************************************************)
(* Properties of UnionFind                                                 *)
(***************************************************************************)
RECURSIVE Depth(_, _)
\* number of parent links from node i to its root
Depth(parent, i) == IF At(parent, i) = i THEN 0 ELSE 1 + Depth(parent, At(parent, i))

\* C14: in every UnionFind state reached by union and find calls, after one
\* find(i) an immediately following find(i) returns the same root and
\* changes no parent pointer.
C14_SecondFindChangesNothing ==
    \A i \in UfNodes :
        LET f1 == Find(uf, i)
            f2 == Find(f1.dsu, i)
        IN  f2.root = f1.root /\ f2.dsu.parent = f1.dsu.parent

\* root of node i's cluster, as find(i) returns it
RootOf(i) == Find(uf, i).root

\* number of recorded toggle_parity calls whose node is now in the cluster of root r
TogglesIn(r) == Cardinality({k \in DOMAIN uf_toggles : RootOf(uf_toggles[k]) = r})

\* the recorded toggle_parity calls d1..dk are all in one cluster now
AllToggledTogether == \A k \in DOMAIN uf_toggles : RootOf(uf_toggles[k]) = RootOf(uf_toggles[1])

\* the parity bit at find(d1) equals k mod 2
ParityIsCount == BitGet(uf.parity, RootOf(uf_toggles[1])) = (Len(uf_toggles) % 2 = 1)

\* C15 (as stated): after toggle_parity calls on d1..dk interleaved with
\* unions and finds, the parity bit at find(d1) equals k mod 2 if and only
\* if d1..dk are all in the same cluster.
C15_ParityIsCountIffTogether ==
    (~uf_set /\ Len(uf_toggles) >= 1) => (ParityIsCount <=> AllToggledTogether)

\* C15 (amended): after toggle_parity calls on d1..dk interleaved with unions
\* and finds, if d1..dk are all in the same cluster then the parity bit at
\* find(d1) equals k mod 2.
C15_TogetherImpliesParityIsCount ==
    (~uf_set /\ Len(uf_toggles) >= 1 /\ AllToggledTogether) => ParityIsCount

\* C15 witness: three toggles on three different nodes that unions have since
\* merged into one cluster, whose root carries an odd parity bit.
C15_Witness ==
    /\ ~uf_set
    /\ Len(uf_toggles) = 3
    /\ Cardinality({uf_toggles[k] : k \in DOMAIN uf_toggles}) = 3
    /\ AllToggledTogether
    /\ BitGet(uf.parity, RootOf(uf_toggles[1]))

\* the current roots of the UnionFind
Roots == {r \in UfNodes : At(uf.parent, r) = r}

\* C16: after toggle_parity, find and union calls on a fresh UnionFind the
\* parity bit at each current root is the number, mod 2, of the toggle_parity
\* calls made on nodes now in that root's cluster; and a union that merges
\* leaves the surviving root with the XOR of the two merged roots' bits.
C16_RootParityIsXorOfToggles ==
    /\ ~uf_set => \A r \in Roots : BitGet(uf.parity, r) = (TogglesIn(r) % 2 = 1)
    /\ \A i \in UfNodes, j \in UfNodes :
           LET u == Union(uf, i, j)
               p_i == BitGet(uf.parity, RootOf(i))
               p_j == BitGet(uf.parity, RootOf(j))
           IN  u.merged =>
                   BitGet(u.dsu.parity, Find(u.dsu, i).root) = (p_i # p_j)

\* C16 witness: a cluster of several nodes holds two toggles made on two
\* different members (even root), another cluster holds one (odd root).
C16_Witness ==
    /\ ~uf_set
    /\ \E r \in Roots :
           /\ TogglesIn(r) = 2
           /\ Cardinality({uf_toggles[k] : k \in {m \in DOMAIN uf_toggles : RootOf(uf_toggles[m]) = r}}) = 2
           /\ ~BitGet(uf.parity, r)
    /\ \E r \in Roots : TogglesIn(r) = 1 /\ BitGet(uf.parity, r)

RECURSIVE ReachesRoot(_, _, _)
\* following parent from node i reaches a self-parented node within `steps` links
ReachesRoot(parent, i, steps) ==
    \/ At(parent, i) = i
    \/ steps > 0 /\ ReachesRoot(parent, At(parent, i), steps - 1)

\* C17: after UnionFind::new and any find, union, toggle_parity and set_parity
\* calls with arguments below n, every parent[i] lies in [0, n) and following
\* parent pointers from any node reaches a self-parented root within n steps
\* (so the parent relation has no cycle other than root self-loops).
C17_ParentsInRangeAndAcyclic ==
    /\ Len(uf.parent) = DsuN
    /\ \A i \in UfNodes : At(uf.parent, i) \in UfNodes
    /\ \A i \in UfNodes : ReachesRoot(uf.parent, i, Len(uf.parent))

\* C17 witness: after unions (and a set_parity call) some node is two links
\* away from its root.
C17_Witness ==
    /\ uf_set
    /\ \E i \in UfNodes : Depth(uf.parent, i) = 2

(***************************************************************************)
(* Properties of solve_into: the sink and the syndrome list                *)
(***************************************************************************)
\* the corrections of the same call made with a sink that never fills
UnlimitedOut == FreshRun(graph, syndrome_indices, dec_N, dec_N).out

\* C18: with a sink of capacity C, a step of solve_into ends the call with
\* BufferOverflow exactly when it makes a successful union while the sink
\* holds C corrections; the call returns at that step and the sink keeps its
\* C corrections, which (on a graph of at most N nodes) are the first C
\* corrections the run makes with an unlimited sink.
C18_OverflowExactlyOnUnionAtFullSink ==
    [][solve.pc = "sweep" =>
         /\ Len(out_buffer) <= out_cap
         /\ (solve'.res = "BufferOverflow") <=>
                (solve'.unions = solve.unions + 1 /\ Len(out_buffer) = out_cap)
         /\ solve'.res = "BufferOverflow" =>
                /\ solve'.pc = "idle"
                /\ out_buffer' = out_buffer
                /\ NumNodes(graph) <= dec_N =>
                       /\ Len(UnlimitedOut) > out_cap
                       /\ out_buffer' = SubSeq(UnlimitedOut, 1, out_cap)]_vars

\* C18 witness: a call with a sink of capacity 1 has returned BufferOverflow
\* at its second successful union, the first correction still in the sink.
C18_Witness ==
    /\ Returned
    /\ solve.res = "BufferOverflow"
    /\ out_cap = 1
    /\ Len(out_buffer) = 1
    /\ solve.unions = 2

\* the syndrome list S of the call with every index >= n removed
InRange(S, n) == SelectSeq(S, LAMBDA d : d < n)

\* the outcomes solve_into can return in the model
Outcomes == {"none", "Ok", "BufferOverflow", "Panic"}

C20_FailedPushKeepsShotOkAdvances ==
    [][/\ (prim_pc = "push" /\ prim_pc' = "pace" /\ push_res.kind = "Err") =>
              /\ data_idx' = data_idx
              /\ QUEUE_DEPTH' = QUEUE_DEPTH
       /\ (prim_pc = "push" /\ prim_pc' = "pace" /\ push_res.kind = "Ok") =>
              /\ data_idx' = (data_idx + 1) % TOTAL_SHOTS
              /\ QUEUE_DEPTH' = QUEUE_DEPTH + 1
       /\ (prim_pc = "pace" /\ prim_pc' = "push") =>
              /\ packet'.shot_id = data_idx
              /\ data_idx' = data_idx
              /\ prim_last = "Err" => packet'.shot_id = packet.shot_id
              /\ prim_last = "Ok" => packet'.shot_id = (packet.shot_id + 1) % TOTAL_SHOTS
       /\ (prim_pc = "push" /\ prim_pc' = "push") => data_idx' = data_idx]_vars

\* C20 witness: after pushes that filled the queue a push was refused, and
\* the primary has built the packet of the next tick for the same shot.
C20_Witness ==
    /\ prim_last = "Err"
    /\ prim_pc = "push"
    /\ Len(pushedSeq) = QN
    /\ packet.shot_id = QN % TOTAL_SHOTS
    /\ data_idx = packet.shot_id

\* C21: a shot whose push was refused is skipped: the packet the primary
\* builds for its next push attempt is not for the shot index of the packet
\* that was refused.
C21_FailedShotNotRetried ==
    [][(prim_pc = "pace" /\ prim_pc' = "push" /\ prim_last = "Err") =>
           packet'.shot_id # packet.shot_id]_vars

(***************************************************************************)
(* Properties of the firmware                                              *)
(***************************************************************************)
RECURSIVE CountUpTo(_, _)
\* number of recorded latencies that are at most l
CountUpTo(f, l) == IF l < 0 THEN 0 ELSE f[l] + CountUpTo(f, l - 1)

RECURSIVE SumUpTo(_, _)
\* sum of the recorded latencies that are at most l
SumUpTo(f, l) == IF l < 0 THEN 0 ELSE l * f[l] + SumUpTo(f, l - 1)

\* the latencies recorded so far
Recorded == {l \in DOMAIN lats : lats[l] > 0}

\* no worker is between its decode and the last of its four counter updates
NoUpdateUnderWay ==
    \A c \in Consumers : wpc[c] \notin {"add_total", "add_sum", "fetch_max", "fetch_min"}

\* C22: every stamped timestamp is at most the clock, so a latency is never
\* wrapped; and when workers have decoded packets with latencies l_1..l_k,
\* have finished their updates, and no telemetry swap has intervened, then
\* total_processed = k, latency_sum = l_1 + ... + l_k, latency_max is the
\* largest and latency_min the smallest of them (for k = 1 all three are l_1).
C22_CountersAreLatencyStatistics ==
    /\ \A i \in DOMAIN stamp : stamp[i] <= now
    /\ \A c \in Consumers : wlat[c] <= now
    /\ (~resets /\ NoUpdateUnderWay) =>
           /\ TOTAL_PROCESSED = CountUpTo(lats, U64_MAX)
           /\ LATENCY_SUM = SumUpTo(lats, U64_MAX)
           /\ Recorded # {} =>
                  /\ LATENCY_MAX \in Recorded
                  /\ LATENCY_MIN \in Recorded
                  /\ \A l \in Recorded : LATENCY_MIN <= l /\ l <= LATENCY_MAX
           /\ Recorded = {} => LATENCY_MAX = 0 /\ LATENCY_MIN = U64_MAX

\* C22 witness: two packets were decoded with two different latencies, the
\* larger one first, all updates are done and no telemetry swap was made.
C22_Witness ==
    /\ ~resets
    /\ NoUpdateUnderWay
    /\ TOTAL_PROCESSED = 2
    /\ Cardinality(Recorded) = 2
    /\ LATENCY_MIN < LATENCY_MAX
    /\ LATENCY_SUM = LATENCY_MIN + LATENCY_MAX

\* positions of worker_main after the wait for SYSTEM_READY
AfterWait == {"graph", "pop", "add_total", "add_sum", "fetch_max", "fetch_min", "panicked"}

\* C23: SYSTEM_READY goes from false to true once and never back, and only
\* when the graph is complete and GRAPH_REF is written; a worker reads
\* GRAPH_REF, pops and decodes only after it has seen SYSTEM_READY = true (so
\* its unwrap of GRAPH_REF never panics); and no step changes the graph or
\* GRAPH_REF once the flag is set.
C23_ReadyOnceAfterPublication ==
    [][/\ SYSTEM_READY => SYSTEM_READY'
       /\ SYSTEM_READY' =>
              /\ GRAPH_REF = "Some"
              /\ graph.fast_edges = BootEdges
              /\ graph' = graph
              /\ GRAPH_REF' = GRAPH_REF
       /\ \A c \in Consumers :
              /\ wpc'[c] \in AfterWait => SYSTEM_READY
              /\ wpc'[c] # "panicked"
              /\ cpc'[c] # "idle" => wpc[c] = "pop" /\ SYSTEM_READY
              /\ pop_res'[c].kind # "none" => SYSTEM_READY]_vars

\* C23 witness: the flag is set, one worker has gone through the wait and
\* decoded a packet while the other is still spinning on the flag.
C23_Witness ==
    /\ SYSTEM_READY
    /\ TOTAL_PROCESSED >= 1
    /\ \E c \in Consumers : wpc[c] = "spin"
    /\ \E c \in Consumers : wpc[c] = "pop"

\* a step of the telemetry branch
TelemetryStep == tele_pc # "none" /\ tele_pc' # tele_pc

\* C29: the telemetry branch is taken when now - last_print_time is at least
\* the telemetry period; it sets latency_sum to 0, latency_max to 0 and
\* latency_min to u64::MAX, each by one atomic swap, and changes neither
\* total_processed, queue_depth, data_idx nor the queue.
C29_TelemetrySwapsAndFrame ==
    [][/\ (tele_pc = "none" /\ tele_pc' # "none") =>
              WrappingSub(prim_now', last_print_time) >= TelemetryPeriod
       /\ (tele_pc = "none" /\ prim_pc = "pace" /\ prim_pc' = "push"
             /\ WrappingSub(now', last_print_time) >= TelemetryPeriod) =>
              tele_pc' = "due"
       /\ TelemetryStep =>
              /\ tele_pc = "due" => LATENCY_SUM' = 0
              /\ tele_pc = "swap_max" => LATENCY_MAX' = 0
              /\ tele_pc = "swap_min" => LATENCY_MIN' = U64_MAX /\ tele_pc' = "none"
              /\ UNCHANGED <<TOTAL_PROCESSED, QUEUE_DEPTH, data_idx>>
              /\ UNCHANGED <<head, tail, buffer>>
              /\ UNCHANGED <<queueRest, push_res, pop_res>>]_vars

\* C29 witness: the telemetry branch has run to its end after workers had
\* recorded latencies, and the latency counters hold their reset values
\* while total_processed keeps its count.
C29_Witness ==
    /\ resets
    /\ tele_pc = "none"
    /\ TOTAL_PROCESSED >= 1
    /\ NoUpdateUnderWay
    /\ LATENCY_SUM = 0
    /\ LATENCY_MAX = 0
    /\ LATENCY_MIN = U64_MAX
    /\ last_print_time >= TelemetryPeriod

RECURSIVE PopsUpTo(_)
\* number of pops that returned an item, over the items up to i
PopsUpTo(i) == IF i < Uninit THEN 0 ELSE popped[i] + PopsUpTo(i - 1)

\* the workers that are at position p of worker_main
WorkersAt(p) == {c \in Consumers : wpc[c] = p}

\* C30: a worker changes total_processed, latency_sum, latency_max and
\* latency_min only in the four updates that follow a decode that returned
\* Ok, once each per such packet; a decode that returned an error changes
\* none of them and the worker goes back to its pop; so total_processed is
\* at most the number of pops that returned a packet, which is at most the
\* number of pushes that returned Ok.
C30_CountersOnlyOnOk ==
    [][/\ TOTAL_PROCESSED' # TOTAL_PROCESSED =>
              /\ TOTAL_PROCESSED' = TOTAL_PROCESSED + 1
              /\ \E c \in WorkersAt("add_total") : wpc'[c] = "add_sum"
       /\ (LATENCY_SUM' # LATENCY_SUM /\ ~TelemetryStep) =>
              \E c \in WorkersAt("add_sum") : wpc'[c] = "fetch_max"
       /\ (LATENCY_MAX' # LATENCY_MAX /\ ~TelemetryStep) =>
              \E c \in WorkersAt("fetch_max") : wpc'[c] = "fetch_min"
       /\ (LATENCY_MIN' # LATENCY_MIN /\ ~TelemetryStep) =>
              \E c \in WorkersAt("fetch_min") : wpc'[c] = "pop"
       /\ \A c \in Consumers :
              /\ (wpc[c] = "pop" /\ wpc'[c] = "add_total") => lats' # lats
              /\ (pop_res[c].kind = "Taken" /\ pop_res'[c].kind = "none"
                    /\ lats' = lats) =>
                     /\ wpc'[c] = "pop"
                     /\ UNCHANGED <<TOTAL_PROCESSED, LATENCY_SUM, LATENCY_MAX, LATENCY_MIN>>
       /\ <<TOTAL_PROCESSED, wpc, lats, popped, pushedSeq>>'
              # <<TOTAL_PROCESSED, wpc, lats, popped, pushedSeq>> =>
              LET oks == CountUpTo(lats', U64_MAX)
                  pops == PopsUpTo(MaxPush - 1)'
              IN  /\ TOTAL_PROCESSED' + Cardinality(WorkersAt("add_total")') = oks
                  /\ oks <= pops
                  /\ pops <= Len(pushedSeq')]_vars

\* C30 witness: two packets were popped, one decode returned Ok and was
\* counted, the other returned an error, and both workers are back at pop.
C30_Witness ==
    /\ PopsUpTo(MaxPush - 1) = 2
    /\ TOTAL_PROCESSED = 1
    /\ CountUpTo(lats, U64_MAX) = 1
    /\ \A c \in Consumers :
           wpc[c] = "pop" /\ cpc[c] = "idle" /\ pop_res[c].kind \in {"none", "None"}

(***************************************************************************)
(* BumpAllocator                                                           *)
(***************************************************************************)
\* the bytes of a region allocate returned
RegionBytes(r) == {a \in 0 .. 2 * USIZE_MAX : r[1] <= a /\ a < r[1] + r[2]}

\* C24: whatever the interleaving of the threads that call allocate, every
\* region [p, p + size) a call returned has p a multiple of the alignment
\* asked for, lies inside [start, start + len), and shares no byte with the
\* region any other successful call returned.
C24_RegionsAlignedInsideDisjoint ==
    /\ \A i \in 1 .. Len(regions) :
          /\ regions[i][1] % regions[i][3] = 0
          /\ bump_start <= regions[i][1]
          /\ regions[i][1] + regions[i][2] <= bump_start + bump_len
    /\ \A i, j \in 1 .. Len(regions) :
          i # j => RegionBytes(regions[i]) \cap RegionBytes(regions[j]) = {}

\* C24 witness: two calls returned non-empty regions from an unaligned
\* start, the second after padding for its alignment, and a third call whose
\* compare_exchange failed is back at the top of the loop
C24_Witness ==
    /\ Len(regions) = 2
    /\ \A i \in 1 .. 2 : regions[i][2] > 0
    /\ regions[2][1] > regions[1][1] + regions[1][2]
    /\ bump_start % 2 = 1
    /\ \E t \in AllocThreadIds : apc[t] = "retry"

\* aligned = round_up(start + offset, align) - start, in unbounded integers
AlignedOffset(off, align) ==
    ((bump_start + off + align - 1) \div align) * align - bump_start

\* C25: a call of allocate returns Err (or panics on the arithmetic) exactly
\* when the aligned offset plus the size asked for exceeds len, and then the
\* offset is unchanged; a call that succeeds moves the offset to the aligned
\* offset plus the size; the offset never decreases, never exceeds len, and
\* deallocate does not change it.
C25_FailsExactlyWhenOutOfRegion ==
    [][/\ \A t \in AllocThreadIds :
            LET new == AlignedOffset(bump_offset, alocal[t].align) + alocal[t].size
            IN  /\ (apc[t] \in {"load", "retry"} /\ apc'[t] \in {"idle", "panicked"}) =>
                       /\ new > bump_len
                       /\ UNCHANGED <<bump_offset, regions>>
                /\ (apc[t] \in {"load", "retry"} /\ apc'[t] = "idle") =>
                       failed' = Append(failed, <<bump_offset, alocal[t].size, alocal[t].align>>)
                /\ (apc[t] \in {"load", "retry"} /\ apc'[t] = "cas") => new <= bump_len
                /\ (apc[t] = "cas" /\ apc'[t] = "idle") =>
                       /\ new <= bump_len
                       /\ bump_offset' = new
                       /\ Len(regions') = Len(regions) + 1
                /\ (apc[t] \in {"load", "retry"} /\ new > bump_len) => apc'[t] # "cas"
                /\ (apc[t] \in {"load", "retry"} /\ new <= bump_len) =>
                       apc'[t] \in {"load", "retry", "cas"}
       /\ bump_offset' >= bump_offset
       /\ bump_offset' <= bump_len
       /\ freed' # freed => UNCHANGED <<bump_offset, regions, failed>>
       /\ failed' # failed => UNCHANGED <<bump_offset, regions>>]_vars

\* C25 witness: with the same layout one call succeeded and a later one
\* returned Err at the offset the first left behind, a region was passed to
\* deallocate, and the offset stands where the successful calls left it
C25_Witness ==
    /\ Len(failed) > 0
    /\ Len(regions) > 0
    /\ freed # {}
    /\ bump_offset > 0
    /\ bump_offset < bump_len
    /\ \E i \in 1 .. Len(regions), k \in 1 .. Len(failed) :
          /\ failed[k][2] = regions[i][2]
          /\ failed[k][3] = regions[i][3]
          /\ failed[k][1] = bump_offset

(***************************************************************************)
(* StaticVec                                                               *)
(***************************************************************************)
\* C26: after any sequence of push, pop and clear 0 <= len <= N; a push on
\* a vector with len = N returns Err with the item it was given and leaves
\* len and the elements as they were; a push on a vector with len < N
\* appends the item, and a pop made right after it returns that item and
\* leaves the elements the vector held before the push.
C26_LenBoundedPushErrPushPop ==
    [][/\ 0 <= sv_len' /\ sv_len' <= SvN
       /\ (sv_ret'.op = "push" /\ sv_len = SvN) =>
              /\ sv_ret'.kind = "Err"
              /\ sv_ret'.item \in SvItemSet
              /\ sv_len' = sv_len
              /\ SvElems(sv_data', sv_len') = SvElems(sv_data, sv_len)
       /\ (sv_ret'.op = "push" /\ sv_len < SvN) =>
              /\ sv_ret'.kind = "Ok"
              /\ SvElems(sv_data', sv_len') = Append(SvElems(sv_data, sv_len), sv_ret'.item)
       /\ (sv_ret.op = "push" /\ sv_ret.kind = "Ok" /\ sv_ret'.op = "pop") =>
              /\ sv_ret'.kind = "Some"
              /\ sv_ret'.item = sv_ret.item
              /\ SvElems(sv_data', sv_len') = sv_prev]_vars

\* C26 witness: a push was refused on a full vector whose elements were
\* pushed after a pop and a clear had left other items in the slots
C26_Witness ==
    /\ sv_ret.op = "push"
    /\ sv_ret.kind = "Err"
    /\ sv_len = SvN
    /\ sv_prev = SvElems(sv_data, sv_len)
    /\ \E k \in 0 .. SvN - 1 : sv_data[k] # sv_ret.item

(***************************************************************************)
(* BitPack                                                                 *)
(***************************************************************************)
\* bit i of the storage: bit i mod 64 of word i / 64, as a number
StorageBit(storage, i) == (storage[i \div PackBits + 1] \div (2 ^ (i % PackBits))) % 2

\* C27: whatever the storage held, once bits have been written with
\* BitPack::set, BitPack::get at every written index returns the bit written
\* there, so a vector written index by index is read back exactly; a set or
\* a toggle at index i changes no bit of the storage other than bit i mod 64
\* of word i / 64; and a toggle that follows a toggle at the same index
\* restores the words.
C27_BitPackRoundTrip ==
    [][/\ \A i \in PackIndices :
            bp_bits'[i] # Uninit => (PackGet(bp_storage', i) <=> bp_bits'[i] = 1)
       /\ bp_call'.op \in {"set", "toggle"} =>
            /\ \A i \in PackIndices \ {bp_call'.index} :
                  StorageBit(bp_storage', i) = StorageBit(bp_storage, i)
            /\ \A w \in 1 .. PackWords : bp_storage'[w] \in WordValues
       /\ bp_call'.op = "toggle" =>
            StorageBit(bp_storage', bp_call'.index) = 1 - StorageBit(bp_storage, bp_call'.index)
       /\ (bp_call.op = "toggle" /\ bp_call'.op = "toggle" /\ bp_call'.index = bp_call.index) =>
            bp_storage' = bp_prev]_vars

\* C27 witness: every index has been written by set, with both values in
\* each word, over storage that held the opposite bits, and the last call
\* was a toggle in the last word
C27_Witness ==
    /\ \A i \in PackIndices : bp_bits[i] # Uninit
    /\ \A w \in 1 .. PackWords : bp_storage[w] \notin {0, 2 ^ PackBits - 1}
    /\ bp_call.op = "toggle"
    /\ bp_call.index \div PackBits = PackWords - 1
    /\ bp_call.index % PackBits > 0

(***************************************************************************)
(* DecodingGraph::build_adjacency                                          *)
(***************************************************************************)
\* the elements of a sequence
SeqRange(s) == {s[k] : k \in 1 .. Len(s)}

\* the number of edge endpoints at node i: a self-loop counts twice
EndpointsAt(edges, i) ==
    Cardinality({e \in (1 .. Len(edges)) \X {1, 2} : edges[e[1]][e[2]] = i})

\* C28: right after build_adjacency, for every edge (u, v) of the graph v is
\* in neighbors(u) and u is in neighbors(v), adj_targets has twice as many
\* entries as there are edges, and neighbors(i) has as many entries as node
\* i has edge endpoints, a self-loop counting twice.
C28_AdjacencySymmetricAndComplete ==
    [][gvars' # gvars =>
         LET edges == graph'.fast_edges
             nb(i) == Neighbors(adj_offsets', adj_targets', i)
         IN  /\ \A k \in 1 .. Len(edges) :
                   /\ edges[k][2] \in SeqRange(nb(edges[k][1]))
                   /\ edges[k][1] \in SeqRange(nb(edges[k][2]))
             /\ VecLen(adj_targets') = 2 * Len(edges)
             /\ \A i \in 0 .. graph'.max_node_id - 1 :
                   Len(nb(i)) = EndpointsAt(edges, i)
             /\ \A i \in NodeIds : i >= graph'.max_node_id => nb(i) = <<>>]_vars

\* C28 witness: the adjacency of a graph with a self-loop, two parallel
\* edges and a node without edges has been built
C28_Witness ==
    /\ Len(graph.fast_edges) = 3
    /\ VecLen(adj_targets) = 6
    /\ VecLen(adj_offsets) = graph.max_node_id + 1
    /\ \E k \in 1 .. 3 : graph.fast_edges[k][1] = graph.fast_edges[k][2]
    /\ \E k, m \in 1 .. 3 :
          /\ k # m
          /\ graph.fast_edges[k] = graph.fast_edges[m]
          /\ graph.fast_edges[k][1] # graph.fast_edges[k][2]
    /\ \E i \in 0 .. graph.max_node_id - 1 :
          Neighbors(adj_offsets, adj_targets, i) = <<>>

(***************************************************************************)
(* The touched-skip of solve_into                                          *)
(***************************************************************************)
\* every node whose touched entry is 0 is its own root, no other node's
\* parent, and has its parity bit clear
UntouchedSingletons(dec) ==
    \A i \in 0 .. Len(dec.touched) - 1 :
        At(dec.touched, i) = 0 =>
            /\ At(dec.parent, i) = i
            /\ \A j \in 0 .. Len(dec.parent) - 1 : j # i => At(dec.parent, j) # i
            /\ ~BitGet(dec.parity, i)

RECURSIVE RunSweepNoSkip(_, _, _, _)
\* the loop of solve_into without the touched check: every edge goes on to
\* the two finds
RunSweepNoSkip(w, edges, i, cap) ==
    IF w.res # "run" THEN w
    ELSE IF i > Len(edges)
         THEN IF w.changed
              THEN RunSweepNoSkip([w EXCEPT !.changed = FALSE], edges, 1, cap)
              ELSE [w EXCEPT !.res = "Ok"]
         ELSE RunSweepNoSkip(EdgeBody(w, edges[i], cap, 1, 1), edges, i + 1, cap)

\* solve_into without the touched check, run to its end on a new decoder
NoSkipRun(g, syn, cap, N) ==
    RunSweepNoSkip([dec |-> SolvePrelude(DecoderNew, g, syn, N), out |-> <<>>,
                    changed |-> FALSE, unions |-> 0, res |-> "run"],
                   g.fast_edges, 1, cap)

\* the edge the sweep is about to process has both endpoints inside the
\* buffers and both touched entries 0: the check skips it
AboutToSkip ==
    /\ solve.pc = "sweep"
    /\ solve.edge_i <= Len(graph.fast_edges)
    /\ LET e == graph.fast_edges[solve.edge_i]
       IN  /\ e[1] < Len(decoder.touched)
           /\ e[2] < Len(decoder.touched)
           /\ At(decoder.touched, e[1]) = 0
           /\ At(decoder.touched, e[2]) = 0

\* the body of the loop for the edge about to be processed, run without the
\* touched check, changes nothing
UnskippedBodyIdle ==
    EdgeBody(Work, graph.fast_edges[solve.edge_i], out_cap, 1, 1) = Work

\* C31 as stated: at every point of a call, the return included, a node
\* with touched = 0 is a singleton cluster of even parity; the skip never
\* suppresses a union; and every call that returns Ok emitted the correction
\* sequence of the algorithm without the touched check.
C31_UntouchedSingletonEverywhere ==
    /\ (solve.pc = "sweep" \/ solve.res \in {"Ok", "BufferOverflow"}) =>
           UntouchedSingletons(decoder)
    /\ AboutToSkip => UnskippedBodyIdle
    /\ (Returned /\ solve.res = "Ok") =>
           LET r == NoSkipRun(graph, syndrome_indices, out_cap, dec_N)
           IN  r.res = "Ok" /\ r.out = out_buffer

\* C31 amended: before every iteration of the edge loop and when the call
\* returns Ok, a node with touched = 0 is a singleton cluster of even
\* parity (when push_correction fails the call returns with the two
\* endpoints just united still unmarked); the skip never suppresses a union
\* the unskipped sweep would perform; and for a graph with num_nodes() <= N
\* the call ends with the outcome and the correction sequence of the same
\* algorithm without the touched check.
C31_SkipIsExactOnValidGraph ==
    /\ (solve.pc = "sweep" \/ solve.res = "Ok") => UntouchedSingletons(decoder)
    /\ AboutToSkip => UnskippedBodyIdle
    /\ (Returned /\ NumNodes(graph) <= dec_N) =>
           LET r == NoSkipRun(graph, syndrome_indices, out_cap, dec_N)
           IN  r.res = solve.res /\ r.out = out_buffer

\* C31 witness: a call that skipped an edge in its first pass, merged over
\* it in a later pass and returned Ok with two corrections
C31_Witness ==
    /\ Returned
    /\ solve.res = "Ok"
    /\ NumNodes(graph) <= dec_N
    /\ solve.passes >= 3
    /\ Len(out_buffer) = 2
    /\ out_buffer[1] = graph.fast_edges[2]
    /\ out_buffer[2] = graph.fast_edges[1]

(***************************************************************************)
(* The packets the primary pushes                                          *)
(***************************************************************************)
\* shots[i]: the W words of the bench data table that start at i * W
ShotSlice(i) == <<i * WORDS_PER_SHOT, (i + 1) * WORDS_PER_SHOT>>

\* C32: every packet handed to push has shot_id = data_idx, with
\* 0 <= data_idx < S, and the syndromes of shots[shot_id]; the k-th packet
\* whose push succeeds carries shot id (k - 1) mod S, so successive pushed
\* packets carry i, (i + 1) mod S, ... in order; the wrap-around never
\* produces a packet of all-zero placeholder syndromes.
C32_PushedPacketsAreShotsInOrder ==
    [][/\ (prim_pc = "pace" /\ prim_pc' = "push") =>
              /\ data_idx' = data_idx
              /\ packet'.shot_id = data_idx
              /\ 0 <= data_idx /\ data_idx < TOTAL_SHOTS
              /\ packet'.syndromes = ShotSlice(packet'.shot_id)
              /\ packet'.syndromes # <<>>
       /\ Len(pushedSeq') = Len(pushedSeq) + 1 =>
              /\ prim_pc = "push"
              /\ packet.shot_id = Len(pushedSeq) % TOTAL_SHOTS
              /\ packet.syndromes = ShotSlice(Len(pushedSeq) % TOTAL_SHOTS)
       /\ (prim_pc = "push" /\ prim_pc' = "pace") =>
              data_idx' = Len(pushedSeq) % TOTAL_SHOTS]_vars

\* C32 witness: S + 1 packets have been pushed, the last one again shot 0
\* after the wrap-around, and data_idx has moved on to shot 1
C32_Witness ==
    /\ Len(pushedSeq) = TOTAL_SHOTS + 1
    /\ packet.shot_id = 0
    /\ packet.syndromes = ShotSlice(0)
    /\ prim_pc = "pace"
    /\ data_idx = 1 % TOTAL_SHOTS

(***************************************************************************)
(* The worker's bit expansion                                              *)
(***************************************************************************)
\* the detector indices k * 64 + b for which bit b of syndromes[k] is 1
SetBits(syndromes) ==
    {x \in 0 .. Len(syndromes) * ExpBits - 1 :
        (syndromes[x \div ExpBits + 1] \div (2 ^ (x % ExpBits))) % 2 = 1}

RECURSIVE Ascending(_)
\* the elements of a finite set of numbers in ascending order
Ascending(S) ==
    IF S = {} THEN <<>>
    ELSE LET m == CHOOSE x \in S : \A y \in S : x <= y
         IN  <<m>> \o Ascending(S \ {m})

\* the first n elements of a sequence
FirstN(s, n) == SubSeq(s, 1, IF Len(s) < n THEN Len(s) ELSE n)

\* C33: the expansion leaves in syndrome_indices, in ascending order,
\* exactly the indices k * 64 + b of the 1 bits of the packet's words, cut
\* to the first ExpCap of them (1024 in the code); every iteration of the
\* while loop makes w smaller, and the expansion reaches its end for every
\* packet.
C33_ExpansionAscendingTruncated ==
    /\ [](exp_pc = "done" =>
            exp_indices = FirstN(Ascending(SetBits(exp_syndromes)), ExpCap))
    /\ [][(exp_pc = "while" /\ exp_w > 0) =>
            (exp_w' < exp_w /\ exp_w' >= 0 /\ exp_bit' <= ExpBits)]_vars
    /\ <>(exp_pc = "done")

\* C33 witness: the expansion of a packet with more 1 bits than the scratch
\* holds, in both words, has ended
C33_Witness ==
    /\ exp_pc = "done"
    /\ Cardinality(SetBits(exp_syndromes)) > ExpCap
    /\ Len(exp_indices) = ExpCap
    /\ exp_syndromes[1] # 0
    /\ exp_syndromes[ExpWords] = 2 ^ ExpBits - 1
    /\ exp_indices[ExpCap] >= ExpBits

(***************************************************************************)
(* RingBuffer                                                              *)
(***************************************************************************)
\* the items that have been pushed and whose read by the consumer has not
\* been made yet
RingUnread ==
    {rb_pushed[k] : k \in 1 .. Len(rb_pushed)}
      \ ({rb_popped[k] : k \in 1 .. Len(rb_popped)}
           \cup (IF rb_cpc = "store" THEN {rb_pop.item} ELSE {}))

\* C34: with one producer and one consumer in any interleaving, the values
\* successful pops returned are a prefix, in order, of the values whose push
\* returned true (nothing lost, duplicated or reordered), and a push never
\* writes a slot that holds an item the consumer has not finished reading.
C34_RingFifoNoOverwrite ==
    /\ [](/\ Len(rb_popped) <= Len(rb_pushed)
          /\ rb_popped = SubSeq(rb_pushed, 1, Len(rb_popped))
          /\ (rb_head - rb_tail) % RingWrap <= RingCap)
    /\ [][rb_buffer' # rb_buffer =>
            /\ rb_buffer[RingSlot(rb_push.head)] \notin RingUnread
            /\ ~(rb_cpc = "check" /\ rb_pop.tail # rb_pop.head
                   /\ RingSlot(rb_pop.tail) = RingSlot(rb_push.head))]_vars

\* C34 witness: the counters have wrapped around, every item pushed has
\* been popped, and a push was refused on the way
C34_Witness ==
    /\ Len(rb_pushed) >= RingWrap
    /\ rb_head < rb_tail \/ rb_head = 0
    /\ rb_popped = rb_pushed
    /\ rb_calls > Len(rb_pushed)
    /\ rb_ppc = "idle"

(***************************************************************************)
(* The clusters solve_into leaves behind                                   *)
(***************************************************************************)
\* the root plain pointer chasing reaches from node i of the decoder
DecRoot(i) == Find(decoder, i).root

\* the graph's edges both of whose endpoints are nodes of the decoder
InnerEdges ==
    {k \in 1 .. Len(graph.fast_edges) :
        /\ graph.fast_edges[k][1] < Len(decoder.parent)
        /\ graph.fast_edges[k][2] < Len(decoder.parent)}

\* C35: when solve_into returns Ok, every edge (u, v) with u, v < n whose
\* endpoints have different roots has both roots of even parity: no edge
\* joins an odd cluster to another cluster.
C35_OkLeavesNoOddFrontier ==
    (Returned /\ solve.res = "Ok") =>
        \A k \in InnerEdges :
            LET ru == DecRoot(graph.fast_edges[k][1])
                rv == DecRoot(graph.fast_edges[k][2])
            IN  ru # rv => ~BitGet(decoder.parity, ru) /\ ~BitGet(decoder.parity, rv)

\* C35 witness: Ok after a merge, with an edge left between two different
\* clusters one of which the sweep has grown (so the edge was not skipped)
C35_Witness ==
    /\ Returned
    /\ solve.res = "Ok"
    /\ solve.unions >= 1
    /\ \E k \in InnerEdges :
          LET u == graph.fast_edges[k][1]
              v == graph.fast_edges[k][2]
          IN  /\ DecRoot(u) # DecRoot(v)
              /\ At(decoder.touched, u) = 1 \/ At(decoder.touched, v) = 1

(***************************************************************************)
(* The corrections as a forest                                             *)
(***************************************************************************)
RECURSIVE CorrClose(_, _)
\* the nodes joined to a node of S by a chain of the pairs
CorrClose(S, pairs) ==
    LET T == S \cup {p[2] : p \in {q \in pairs : q[1] \in S}}
               \cup {p[1] : p \in {q \in pairs : q[2] \in S}}
    IN  IF T = S THEN S ELSE CorrClose(T, pairs)

\* the nodes the emitted corrections join to node i
CorrComp(i) == CorrClose({i}, {out_buffer[k] : k \in 1 .. Len(out_buffer)})

DecNodes == 0 .. Len(decoder.parent) - 1

\* the roots of the decoder's forest
DecRoots == {r \in DecNodes : At(decoder.parent, r) = r}

\* a call of solve_into is sweeping, has panicked or has returned
InOrAfterSolve == solve.pc \in {"sweep", "panicked"} \/ Returned

\* the original reading of C36: at every return of solve_into the number of
\* corrections is n minus the number of distinct roots
C36_CountAtEveryReturn ==
    Returned => Len(out_buffer) = Len(decoder.parent) - Cardinality(DecRoots)

\* C36 (amended): every pair solve_into emits is the graph edge being
\* examined, emitted in the step that first joins its endpoints; the
\* corrections are acyclic; and unless the call returns BufferOverflow they
\* span the clusters and number n minus the number of roots (after a
\* BufferOverflow return, one less).
C36_CorrectionsSpanningForest ==
    /\ [](InOrAfterSolve =>
            /\ \A k \in 1 .. Len(out_buffer) :
                   \E e \in 1 .. Len(graph.fast_edges) :
                       graph.fast_edges[e] = out_buffer[k]
            /\ Cardinality({CorrComp(i) : i \in DecNodes})
                   = Len(decoder.parent) - Len(out_buffer)
            /\ solve.res # "BufferOverflow" =>
                   /\ \A i, j \in DecNodes :
                          DecRoot(i) = DecRoot(j) <=> j \in CorrComp(i)
                   /\ Len(out_buffer)
                          = Len(decoder.parent) - Cardinality(DecRoots)
            /\ solve.res = "BufferOverflow" =>
                   Len(out_buffer)
                       = Len(decoder.parent) - Cardinality(DecRoots) - 1)
    /\ [][Len(out_buffer') > Len(out_buffer) =>
            /\ solve.pc = "sweep"
            /\ solve.edge_i <= Len(graph.fast_edges)
            /\ out_buffer' = Append(out_buffer, graph.fast_edges[solve.edge_i])
            /\ LET u == graph.fast_edges[solve.edge_i][1]
                   v == graph.fast_edges[solve.edge_i][2]
               IN  /\ Find(decoder, u).root # Find(decoder, v).root
                   /\ Find(decoder', u).root = Find(decoder', v).root]_vars

\* C36 witness: an Ok return with two corrections joining three nodes into
\* one cluster
C36_Witness ==
    /\ Returned
    /\ solve.res = "Ok"
    /\ Len(out_buffer) = 2
    /\ Cardinality(CorrComp(0)) = 3
    /\ Cardinality(DecRoots) = Len(decoder.parent) - 2

\* C37: find(i) changes no node's root (for every node j the root reached
\* from j is the same before and after the call) and returns the root that
\* pointer chasing without compression finds on the same parent array.
C37_FindKeepsRoots ==
    \A i \in UfNodes :
        LET f == Find(uf, i)
        IN  /\ f.root = PlainRoot(uf.parent, i)
            /\ \A j \in UfNodes :
                   PlainRoot(f.dsu.parent, j) = PlainRoot(uf.parent, j)
            /\ f.dsu.rank = uf.rank
            /\ f.dsu.parity = uf.parity

\* C37 witness: a node three links below its root, whose find rewrites
\* parent pointers, next to a node a find has already moved up
C37_Witness ==
    \E i, j \in UfNodes :
        /\ Depth(uf.parent, i) >= 3
        /\ Find(uf, i).dsu.parent # uf.parent
        /\ Depth(uf.parent, j) = 1
        /\ At(uf.rank, At(uf.parent, j)) >= 3
        /\ \A k \in UfNodes : At(uf.parent, k) = j => k = j

(***************************************************************************)
(* The indices solve_into uses                                             *)
(***************************************************************************)
RECURSIVE FindIndices(_, _)
\* the indices find(i) uses on parent: i, its parent p and, through
\* parent[p], the indices the rest of the loop uses from p on
FindIndices(parent, i) ==
    IF i >= Len(parent) THEN {i}
    ELSE IF At(parent, i) = i THEN {i}
    ELSE LET p == At(parent, i)
         IN  IF p >= Len(parent) THEN {i, p}
             ELSE {i, p} \cup FindIndices(Put(parent, i, At(parent, p)), p)

\* the indices the loop body uses for the edge the sweep is at: the two
\* touched accesses, the two finds, the parity reads at the roots and the
\* finds inside union
EdgeIndices ==
    LET e == graph.fast_edges[solve.edge_i]
        fu == FindIndices(decoder.parent, e[1])
    IN  {e[1], e[2]} \cup fu
          \cup (IF \A x \in fu : x < Len(decoder.parent)
                THEN FindIndices(Find(decoder, e[1]).dsu.parent, e[2])
                ELSE {})

\* the syndrome indices the injection loop lets through to toggle_parity
\* and touched
InjectIndices ==
    {syndrome_indices[k] : k \in {j \in 1 .. Len(syndrome_indices) :
                                    syndrome_indices[j] < solve.num_nodes}}

\* C38: for every graph with num_nodes() <= N and every syndrome list,
\* every index solve_into uses to read or write parent, rank, touched or
\* the parity bit vector is below n = graph.num_nodes(), the length the
\* four buffers are given, including the unchecked touched accesses.
C38_IndicesBelowNumNodes ==
    (solve.pc = "sweep" /\ NumNodes(graph) <= dec_N) =>
        /\ solve.num_nodes = NumNodes(graph)
        /\ Len(decoder.parent) = solve.num_nodes
        /\ Len(decoder.rank) = solve.num_nodes
        /\ Len(decoder.touched) = solve.num_nodes
        /\ Len(decoder.parity) * WordBits >= solve.num_nodes
        /\ \A i \in DecNodes : At(decoder.parent, i) < solve.num_nodes
        /\ \A x \in InjectIndices : x < solve.num_nodes
        /\ solve.edge_i <= Len(graph.fast_edges) =>
               \A x \in EdgeIndices :
                   /\ x < solve.num_nodes
                   /\ x \div WordBits < Len(decoder.parity)

\* C38 witness: a graph with exactly N nodes, a syndrome at the last node,
\* and the sweep, after a union, at an edge that ends at the last node
\* and whose finds follow a parent link
C38_Witness ==
    /\ solve.pc = "sweep"
    /\ NumNodes(graph) = dec_N
    /\ solve.unions >= 1
    /\ solve.edge_i <= Len(graph.fast_edges)
    /\ dec_N - 1 \in InjectIndices
    /\ dec_N - 1 \in EdgeIndices
    /\ Cardinality(EdgeIndices) >= 3

(***************************************************************************)
(* QUEUE_DEPTH                                                             *)
(***************************************************************************)
RECURSIVE PopsReturnedUpTo(_)
\* the number of pops that have returned an item with value at most v
PopsReturnedUpTo(v) ==
    IF v < Uninit THEN 0 ELSE popped[v] + PopsReturnedUpTo(v - 1)

\* the pushes that returned Ok and for which the primary has made its
\* fetch_add
CountedPushes ==
    Len(pushedSeq) - (IF prim_pc = "push" /\ push_res.kind = "Ok" THEN 1 ELSE 0)

\* the pops that returned Some and for which the worker has made its
\* fetch_sub
CountedPops ==
    PopsReturnedUpTo(MaxPush - 1)
        - Cardinality({c \in Consumers : pop_res[c].kind = "Some"})

====
